---- MODULE Spec2Model ----
(***************************************************************************)
(* Model of crates/repl/src/notebook_ui.rs: the notebook codec that the    *)
(* serde derives on DeserializedNotebook and its parts define              *)
(* (deserialize_notebook, and the matching Serialize), and the Notebook    *)
(* view (open, load, new, the registered action handler, render).          *)
(*                                                                         *)
(* JSON text is modelled as the token tree of the text, or as text that    *)
(* is not JSON from its first byte.  A number literal keeps its lexical    *)
(* form, because serde_json types a number by its form: "4" is an integer, *)
(* "4.0" a float, "-0" a float, "1e999" is out of range.  A magnitude m is *)
(* written as the pair hi, lo with m = hi * 65536 + lo, so that literals   *)
(* beyond the i32 range can be written down.                               *)
(***************************************************************************)
EXTENDS Integers, Sequences, FiniteSets, TLC

VARIABLES
    text,       \* codec: the text handed to deserialize_notebook, or NoText
    doc,        \* codec: the value handed to the serializer, or NoDoc
    result,     \* codec: what deserialize_notebook returned, or Pending
    window,     \* view: "open" or "closed" (the window the tasks run in)
    opens,      \* view: one record per Notebook::open task
    views,      \* view: the Notebook views created so far
    pane,       \* view: the items of the workspace's active pane (view ids)
    frames,     \* view: per view, the last frame render produced
    stdout,     \* view: number of lines open_notebook has printed
    dispatched  \* view: the action last dispatched to a Notebook, or NoAction

codecVars == <<text, doc, result>>
viewVars == <<window, opens, views, pane, frames, stdout, dispatched>>
vars ==
    <<text, doc, result, window, opens, views, pane, frames, stdout, dispatched>>

----------------------------------------------------------------------------
(* Option<T> and Result<T, serde_json::Error>                              *)

None == [some |-> FALSE]
Some(x) == [some |-> TRUE, v |-> x]

Ok(x) == [ok |-> TRUE, v |-> x]
\* cat is serde_json::Error::classify(): "Syntax", "Eof" or "Data".
Err(cat, msg) == [ok |-> FALSE, cat |-> cat, msg |-> msg]

NoText == [kind |-> "none"]
NoDoc == [absent |-> TRUE]
Pending == [pending |-> TRUE]

----------------------------------------------------------------------------
(* JSON token trees                                                        *)

JNull == [t |-> "null"]
JBool(b) == [t |-> "bool", b |-> b]
JStr(s) == [t |-> "str", s |-> s]
JArr(a) == [t |-> "arr", a |-> a]
\* an object is the sequence of its members, in text order
JObj(o) == [t |-> "obj", o |-> o]
KV(k, v) == [k |-> k, v |-> v]
\* form: "int" digits | "dot0" digits.0 | "dot5" digits.5 | "e999" digits e999
JNumLit(neg, hi, lo, form) ==
    [t |-> "num", neg |-> neg, hi |-> hi, lo |-> lo, form |-> form]
\* the integer literal of a small integer
JInt(n) ==
    IF n >= 0 THEN JNumLit(FALSE, n \div 65536, n % 65536, "int")
    ELSE JNumLit(TRUE, (0 - n) \div 65536, (0 - n) % 65536, "int")

JsonText(root) == [kind |-> "json", root |-> root]
\* a JSON text followed by further non-blank characters
TrailingText(root) == [kind |-> "trailing", root |-> root]
\* text whose first byte can start no JSON value, such as "@notebook" or "}"
NotJsonText == [kind |-> "notjson"]
\* text that starts like one of the literals null, true, false and has a
\* wrong byte inside it, such as "notebook", "nil" or "falsy"
BadIdentText == [kind |-> "badident"]
\* text that ends inside one of the literals null, true, false, such as
\* "nul", "tru" or "f"
CutIdentText == [kind |-> "cutident"]
\* the empty text
EmptyText == [kind |-> "empty"]

----------------------------------------------------------------------------
(* The shapes the derives declare                                          *)

\* the variants of DeserializedCell and DeserializedOutput, in declaration
\* order, under their serde names
CellVariants == <<"markdown", "code", "raw">>
OutputVariants == <<"stream", "display_data", "execute_result", "error">>

StructTypes ==
    {"DeserializedNotebook", "DeserializedMetadata", "DeserializedKernelSpec",
     "DeserializedLanguageInfo", "DeserializedCellMetadata",
     "markdown", "code", "raw",
     "stream", "display_data", "execute_result", "error"}

\* the fields of a struct or struct variant, in declaration order
StructFields(ty) ==
    CASE ty = "DeserializedNotebook" ->
             <<"metadata", "nbformat", "nbformat_minor", "cells">>
      [] ty = "DeserializedMetadata" -> <<"kernelspec", "language_info">>
      [] ty = "DeserializedKernelSpec" -> <<"name">>
      [] ty = "DeserializedLanguageInfo" ->
             <<"name", "version", "codemirror_mode">>
      [] ty = "DeserializedCellMetadata" ->
             <<"collapsed", "scrolled", "deletable", "editable", "format",
               "name", "tags">>
      [] ty = "markdown" -> <<"metadata", "source", "attachments">>
      [] ty = "code" -> <<"metadata", "execution_count", "source", "outputs">>
      [] ty = "raw" -> <<"metadata", "source">>
      [] ty = "stream" -> <<"name", "text">>
      [] ty = "display_data" -> <<"data", "metadata">>
      [] ty = "execute_result" -> <<"execution_count", "data", "metadata">>
      [] ty = "error" -> <<"ename", "evalue", "traceback">>

\* the declared type of a field
FieldType(ty, f) ==
    CASE ty = "DeserializedNotebook" ->
             (CASE f = "metadata" -> "DeserializedMetadata"
                [] f = "nbformat" -> "i32"
                [] f = "nbformat_minor" -> "i32"
                [] f = "cells" -> "Vec<DeserializedCell>")
      [] ty = "DeserializedMetadata" ->
             (CASE f = "kernelspec" -> "Option<DeserializedKernelSpec>"
                [] f = "language_info" -> "Option<DeserializedLanguageInfo>")
      [] ty = "DeserializedKernelSpec" -> "String"
      [] ty = "DeserializedLanguageInfo" ->
             (CASE f = "name" -> "String"
                [] f = "version" -> "Option<String>"
                [] f = "codemirror_mode" -> "Option<String>")
      [] ty = "DeserializedCellMetadata" ->
             (CASE f = "collapsed" -> "Option<bool>"
                [] f = "scrolled" -> "Option<Value>"
                [] f = "deletable" -> "Option<bool>"
                [] f = "editable" -> "Option<bool>"
                [] f = "format" -> "Option<String>"
                [] f = "name" -> "Option<String>"
                [] f = "tags" -> "Option<Vec<String>>")
      [] ty \in {"markdown", "code", "raw"} ->
             (CASE f = "metadata" -> "DeserializedCellMetadata"
                [] f = "source" -> "String"
                [] f = "attachments" -> "Option<Value>"
                [] f = "execution_count" -> "Option<i32>"
                [] f = "outputs" -> "Vec<DeserializedOutput>")
      [] ty = "stream" -> "String"
      [] ty \in {"display_data", "execute_result"} ->
             (CASE f = "execution_count" -> "i32"
                [] f = "data" -> "Value"
                [] f = "metadata" -> "Value")
      [] ty = "error" ->
             (CASE f = "ename" -> "String"
                [] f = "evalue" -> "String"
                [] f = "traceback" -> "Vec<String>")

OptionTypes ==
    {"Option<DeserializedKernelSpec>", "Option<DeserializedLanguageInfo>",
     "Option<String>", "Option<bool>", "Option<Value>", "Option<i32>",
     "Option<Vec<String>>"}

VecTypes == {"Vec<DeserializedCell>", "Vec<DeserializedOutput>", "Vec<String>"}

\* T of Option<T> and of Vec<T>
Inner(ty) ==
    CASE ty = "Option<DeserializedKernelSpec>" -> "DeserializedKernelSpec"
      [] ty = "Option<DeserializedLanguageInfo>" -> "DeserializedLanguageInfo"
      [] ty = "Option<String>" -> "String"
      [] ty = "Option<bool>" -> "bool"
      [] ty = "Option<Value>" -> "Value"
      [] ty = "Option<i32>" -> "i32"
      [] ty = "Option<Vec<String>>" -> "Vec<String>"
      [] ty = "Vec<DeserializedCell>" -> "DeserializedCell"
      [] ty = "Vec<DeserializedOutput>" -> "DeserializedOutput"
      [] ty = "Vec<String>" -> "String"

\* the internally tagged enums, their tag field and their variants
EnumTypes == {"DeserializedCell", "DeserializedOutput"}
TagName(ty) == IF ty = "DeserializedCell" THEN "cell_type" ELSE "output_type"
Variants(ty) == IF ty = "DeserializedCell" THEN CellVariants ELSE OutputVariants

Range(s) == {s[i] : i \in DOMAIN s}

----------------------------------------------------------------------------
(* serde_json::Value, the type of the opaque payloads                      *)

VNull == [vt |-> "Null"]
VBool(b) == [vt |-> "Bool", b |-> b]
VString(s) == [vt |-> "String", s |-> s]
VArray(a) == [vt |-> "Array", a |-> a]
\* a Map, as the sequence of its entries: keys are distinct
VObject(o) == [vt |-> "Object", o |-> o]
\* Number: kind "PosInt" (u64), "NegInt" (i64, below zero) or "Float" (f64);
\* the magnitude is hi * 65536 + lo, plus one half when half is set
VNumber(kind, neg, hi, lo, half) ==
    [vt |-> "Number", kind |-> kind, neg |-> neg, hi |-> hi, lo |-> lo,
     half |-> half]

\* the out-of-range literal: digits other than zero with the exponent e999
IsOutOfRange(v) == v.t = "num" /\ v.form = "e999" /\ (v.hi # 0 \/ v.lo # 0)

\* serde_json's parse of a number literal into a Number (parse_any_number):
\* an integer literal is a u64 or a negative i64, but "-0" is the float -0.0;
\* a literal with a fraction or an exponent is a float
ParseNumber(v) ==
    IF v.form = "int" /\ ~v.neg THEN VNumber("PosInt", FALSE, v.hi, v.lo, FALSE)
    ELSE IF v.form = "int" /\ (v.hi # 0 \/ v.lo # 0)
         THEN VNumber("NegInt", TRUE, v.hi, v.lo, FALSE)
    ELSE IF v.form = "e999" THEN VNumber("Float", v.neg, 0, 0, FALSE)
    ELSE VNumber("Float", v.neg, v.hi, v.lo, v.form = "dot5")

\* Map::insert: a repeated key replaces the value of the entry it repeats
MapInsert(o, k, x) ==
    IF \E i \in DOMAIN o : o[i].k = k
    THEN [i \in DOMAIN o |-> IF o[i].k = k THEN KV(k, x) ELSE o[i]]
    ELSE Append(o, KV(k, x))

RECURSIVE HasOutOfRange(_)
\* a number literal out of f64's range somewhere in the tree: reading the
\* tree into a Value or into serde's buffer fails at it
HasOutOfRange(v) ==
    CASE v.t = "num" -> IsOutOfRange(v)
      [] v.t = "arr" -> \E i \in DOMAIN v.a : HasOutOfRange(v.a[i])
      [] v.t = "obj" -> \E i \in DOMAIN v.o : HasOutOfRange(v.o[i].v)
      [] OTHER -> FALSE

RECURSIVE ToValue(_)
RECURSIVE ToMap(_, _, _)
\* Value's Deserialize, on a tree with no out-of-range literal
ToValue(v) ==
    CASE v.t = "null" -> VNull
      [] v.t = "bool" -> VBool(v.b)
      [] v.t = "str" -> VString(v.s)
      [] v.t = "num" -> ParseNumber(v)
      [] v.t = "arr" -> VArray([i \in DOMAIN v.a |-> ToValue(v.a[i])])
      [] v.t = "obj" -> VObject(ToMap(v.o, 1, <<>>))
ToMap(o, i, acc) ==
    IF i > Len(o) THEN acc
    ELSE ToMap(o, i + 1, MapInsert(acc, o[i].k, ToValue(o[i].v)))

\* Number's Serialize: an integer prints its digits, a float prints with a
\* fraction part ("4.0", "4.5", "-0.0")
NumberLit(n) ==
    IF n.kind = "Float"
    THEN JNumLit(n.neg, n.hi, n.lo, IF n.half THEN "dot5" ELSE "dot0")
    ELSE JNumLit(n.neg, n.hi, n.lo, "int")

RECURSIVE FromValue(_)
\* Value's Serialize
FromValue(x) ==
    CASE x.vt = "Null" -> JNull
      [] x.vt = "Bool" -> JBool(x.b)
      [] x.vt = "String" -> JStr(x.s)
      [] x.vt = "Number" -> NumberLit(x)
      [] x.vt = "Array" -> JArr([i \in DOMAIN x.a |-> FromValue(x.a[i])])
      [] x.vt = "Object" ->
             JObj([i \in DOMAIN x.o |-> KV(x.o[i].k, FromValue(x.o[i].v))])

----------------------------------------------------------------------------
(* Deserialize                                                             *)

\* a value of a JSON type the visitor does not take.  From text, serde_json
\* parses a number before it reports it, and an out-of-range literal fails
\* that parse with a syntax-category error.
InvalidType(v) ==
    IF IsOutOfRange(v) THEN Err("Syntax", "number out of range")
    ELSE Err("Data", "invalid type")

\* i32 read with a wrapping cast: the low 31 bits of a magnitude that does
\* not fit, instead of the error
DeserializeI32Wrapping(v) ==
    IF v.t # "num" \/ IsOutOfRange(v) THEN InvalidType(v)
    ELSE LET n == ParseNumber(v) IN
         CASE n.kind = "Float" -> Err("Data", "invalid type")
           [] n.kind = "PosInt" -> Ok((n.hi % 32768) * 65536 + n.lo)
           [] n.kind = "NegInt" -> Ok((0 - (n.hi % 32768)) * 65536 - n.lo)

\* i32: an integer literal inside [-2^31, 2^31 - 1]; a float is a type error
DeserializeI32(v) ==
    IF v.t # "num" \/ IsOutOfRange(v) THEN InvalidType(v)
    ELSE LET n == ParseNumber(v) IN
         CASE n.kind = "Float" -> Err("Data", "invalid type")
           [] n.kind = "PosInt" ->
                  IF n.hi <= 32767 THEN Ok(n.hi * 65536 + n.lo)
                  ELSE Err("Data", "invalid value")
           [] n.kind = "NegInt" ->
                  IF n.hi < 32768 \/ (n.hi = 32768 /\ n.lo = 0)
                  THEN Ok((0 - n.hi) * 65536 - n.lo)
                  ELSE Err("Data", "invalid value")

DeserializeString(v) == IF v.t = "str" THEN Ok(v.s) ELSE InvalidType(v)

DeserializeBool(v) == IF v.t = "bool" THEN Ok(v.b) ELSE InvalidType(v)

\* every field required, an Option field too
MissingFieldAllRequired(ty, f) == Err("Data", "missing field")

\* a field the map did not hold: an Option field is None, any other field
\* is the error `missing field`
MissingField(ty, f) ==
    IF FieldType(ty, f) \in OptionTypes THEN Ok(None)
    ELSE Err("Data", "missing field")

\* an unknown tag taken as the last variant (a catch-all variant)
VariantOfCatchAll(variants, v, buffered) ==
    IF v.t = "str"
    THEN IF v.s \in Range(variants) THEN Ok(v.s) ELSE Ok(variants[Len(variants)])
    ELSE InvalidType(v)

\* the variant a tag value names.  From text the tag is read as a string;
\* from serde's buffer (a variant nested in a cell) the derived visitor also
\* takes an unsigned integer as the variant's index.
VariantOf(variants, v, buffered) ==
    IF v.t = "str"
    THEN IF v.s \in Range(variants) THEN Ok(v.s)
         ELSE Err("Data", "unknown variant")
    ELSE IF buffered /\ v.t = "num" /\ v.form = "int" /\ ~v.neg
    THEN IF v.hi = 0 /\ v.lo < Len(variants) THEN Ok(variants[v.lo + 1])
         ELSE Err("Data", "invalid value")
    ELSE InvalidType(v)

\* a struct value from what its map held: a field never seen is missing
Build(ty, acc) ==
    LET fs == StructFields(ty)
        miss == {i \in DOMAIN fs : fs[i] \notin DOMAIN acc
                                   /\ ~MissingField(ty, fs[i]).ok}
    IN IF miss # {}
       THEN MissingField(ty, fs[CHOOSE i \in miss : \A j \in miss : i <= j])
       ELSE Ok([f \in Range(fs) |->
                  IF f \in DOMAIN acc THEN acc[f] ELSE MissingField(ty, f).v])

RECURSIVE Deserialize(_, _, _)
RECURSIVE VisitMap(_, _, _, _, _)
RECURSIVE VisitSeq(_, _, _, _, _)
RECURSIVE VisitSeqSkipping(_, _, _, _, _)
RECURSIVE VisitSeqStruct(_, _, _, _, _)
RECURSIVE ReadTag(_, _, _, _, _)

\* the derived visit_map of a struct: members in text order; a known key seen
\* again is `duplicate field`, an unknown key is skipped, the first error ends
\* the read
VisitMap(ty, o, i, acc, buffered) ==
    IF i > Len(o) THEN Build(ty, acc)
    ELSE IF o[i].k \notin Range(StructFields(ty))
         THEN VisitMap(ty, o, i + 1, acc, buffered)
    ELSE IF o[i].k \in DOMAIN acc THEN Err("Data", "duplicate field")
    ELSE LET r == Deserialize(FieldType(ty, o[i].k), o[i].v, buffered) IN
         IF ~r.ok THEN r
         ELSE VisitMap(ty, o, i + 1, (o[i].k :> r.v) @@ acc, buffered)

\* the fields marked #[serde(default)]
SerdeDefault(ty, f) == ty = "markdown" /\ f = "attachments"

\* the derived visit_seq of a struct: the elements of the array are the
\* fields in declaration order; where the array ends early a field marked
\* #[serde(default)] takes its default and any other field, an Option too,
\* is `invalid length`.  Elements past the last field are left to the caller.
VisitSeqStruct(ty, a, i, acc, buffered) ==
    LET fs == StructFields(ty) IN
    IF i > Len(fs) THEN Ok(acc)
    ELSE IF i > Len(a)
         THEN IF SerdeDefault(ty, fs[i])
              THEN VisitSeqStruct(ty, a, i + 1, (fs[i] :> None) @@ acc, buffered)
              ELSE Err("Data", "invalid length")
    ELSE LET r == Deserialize(FieldType(ty, fs[i]), a[i], buffered) IN
         IF ~r.ok THEN r
         ELSE VisitSeqStruct(ty, a, i + 1, (fs[i] :> r.v) @@ acc, buffered)

\* Vec<T> that leaves out an element that fails and reads on
VisitSeqSkipping(ty, a, i, acc, buffered) ==
    IF i > Len(a) THEN Ok(acc)
    ELSE LET r == Deserialize(ty, a[i], buffered) IN
         VisitSeqSkipping(ty, a, i + 1, IF r.ok THEN Append(acc, r.v) ELSE acc,
                          buffered)

\* Vec<T>: the elements in order; the first error ends the read
VisitSeq(ty, a, i, acc, buffered) ==
    IF i > Len(a) THEN Ok(acc)
    ELSE LET r == Deserialize(ty, a[i], buffered) IN
         IF ~r.ok THEN r ELSE VisitSeq(ty, a, i + 1, Append(acc, r.v), buffered)

\* the first pass over an internally tagged enum's map: every member but the
\* tag is read into serde's buffer (which parses its numbers), the tag is
\* read as the variant; a second tag is `duplicate field`, no tag is
\* `missing field`.  tag: the variant read so far, as an Option.
ReadTag(ty, o, i, tag, buffered) ==
    IF i > Len(o)
    THEN IF tag.some THEN Ok(tag.v) ELSE Err("Data", "missing field")
    ELSE IF o[i].k = TagName(ty)
    THEN IF tag.some THEN Err("Data", "duplicate field")
         ELSE LET r == VariantOf(Variants(ty), o[i].v, buffered) IN
              IF ~r.ok THEN r ELSE ReadTag(ty, o, i + 1, Some(r.v), buffered)
    ELSE IF HasOutOfRange(o[i].v) THEN Err("Syntax", "number out of range")
    ELSE ReadTag(ty, o, i + 1, tag, buffered)

\* Deserialize for the type named ty, from the tree v.  buffered: v has
\* already been read into serde's buffer (it lies inside a cell).
\* A struct or a tagged enum may also be written as an array: a struct as
\* its fields in order, a tagged enum as its tag followed by the fields of
\* the variant (the elements after the tag go through serde's buffer).
\* Elements past the last field are `trailing characters` when read from
\* text and `invalid length` when read from the buffer.
Deserialize(ty, v, buffered) ==
    CASE ty = "i32" -> DeserializeI32(v)
      [] ty = "String" -> DeserializeString(v)
      [] ty = "bool" -> DeserializeBool(v)
      [] ty = "Value" ->
             IF HasOutOfRange(v) THEN Err("Syntax", "number out of range")
             ELSE Ok(ToValue(v))
      [] ty \in OptionTypes ->
             IF v.t = "null" THEN Ok(None)
             ELSE LET r == Deserialize(Inner(ty), v, buffered) IN
                  IF r.ok THEN Ok(Some(r.v)) ELSE r
      [] ty \in VecTypes ->
             IF v.t = "arr" THEN VisitSeq(Inner(ty), v.a, 1, <<>>, buffered)
             ELSE InvalidType(v)
      [] ty \in EnumTypes ->
             IF v.t = "arr"
             THEN IF Len(v.a) = 0 THEN Err("Data", "missing field")
                  ELSE LET tag == VariantOf(Variants(ty), v.a[1], buffered) IN
                  IF ~tag.ok THEN tag
                  ELSE IF \E i \in 2..Len(v.a) : HasOutOfRange(v.a[i])
                  THEN Err("Syntax", "number out of range")
                  ELSE LET r == VisitSeqStruct(tag.v, Tail(v.a), 1, <<>>, TRUE) IN
                       IF ~r.ok THEN r
                       ELSE IF Len(v.a) - 1 > Len(StructFields(tag.v))
                       THEN Err("Data", "invalid length")
                       ELSE Ok((TagName(ty) :> tag.v) @@ r.v)
             ELSE IF v.t # "obj" THEN InvalidType(v)
             ELSE LET tag == ReadTag(ty, v.o, 1, None, buffered) IN
                  IF ~tag.ok THEN tag
                  ELSE LET r == VisitMap(tag.v, v.o, 1, <<>>, TRUE) IN
                       IF ~r.ok THEN r
                       ELSE Ok((TagName(ty) :> tag.v) @@ r.v)
      [] ty \in StructTypes ->
             IF v.t = "arr"
             THEN LET r == VisitSeqStruct(ty, v.a, 1, <<>>, buffered) IN
                  IF ~r.ok THEN r
                  ELSE IF Len(v.a) > Len(StructFields(ty))
                  THEN IF buffered THEN Err("Data", "invalid length")
                       ELSE Err("Syntax", "trailing characters")
                  ELSE r
             ELSE IF v.t # "obj" THEN InvalidType(v)
             ELSE VisitMap(ty, v.o, 1, <<>>, buffered)

\* fn deserialize_notebook: serde_json::from_str, which reads one value and
\* then requires the end of the text
deserialize_notebook(notebook) ==
    CASE notebook.kind = "empty" -> Err("Eof", "EOF while parsing a value")
      [] notebook.kind = "notjson" -> Err("Syntax", "expected value")
      [] notebook.kind = "badident" -> Err("Syntax", "expected ident")
      [] notebook.kind = "cutident" -> Err("Eof", "EOF while parsing a value")
      [] notebook.kind = "json" ->
             Deserialize("DeserializedNotebook", notebook.root, FALSE)
      [] notebook.kind = "trailing" ->
             LET r == Deserialize("DeserializedNotebook", notebook.root, FALSE)
             IN IF r.ok THEN Err("Syntax", "trailing characters") ELSE r

----------------------------------------------------------------------------
(* Serialize                                                               *)

\* i32's Serialize: the decimal digits, with a minus sign below zero
I32Lit(n) ==
    IF n >= 0 THEN JNumLit(FALSE, n \div 65536, n % 65536, "int")
    ELSE LET m == 0 - (n + 1)      \* the magnitude less one: no overflow
             lo == (m % 65536) + 1
         IN IF lo = 65536 THEN JNumLit(TRUE, (m \div 65536) + 1, 0, "int")
            ELSE JNumLit(TRUE, m \div 65536, lo, "int")

RECURSIVE Serialize(_, _)
\* the derived Serialize of the type named ty: a struct is an object of all
\* its fields in declaration order, None is null, a tagged enum puts its tag
\* first
Serialize(ty, x) ==
    CASE ty = "i32" -> I32Lit(x)
      [] ty = "String" -> JStr(x)
      [] ty = "bool" -> JBool(x)
      [] ty = "Value" -> FromValue(x)
      [] ty \in OptionTypes ->
             IF x.some THEN Serialize(Inner(ty), x.v) ELSE JNull
      [] ty \in VecTypes ->
             JArr([i \in DOMAIN x |-> Serialize(Inner(ty), x[i])])
      [] ty \in EnumTypes ->
             LET variant == x[TagName(ty)] IN
             JObj(<<KV(TagName(ty), JStr(variant))>>
                  \o Serialize(variant, x).o)
      [] ty \in StructTypes ->
             LET fs == StructFields(ty) IN
             JObj([i \in DOMAIN fs |->
                     KV(fs[i], Serialize(FieldType(ty, fs[i]), x[fs[i]]))])

\* serde_json::to_string of a DeserializedNotebook
serialize_notebook(d) == JsonText(Serialize("DeserializedNotebook", d))

----------------------------------------------------------------------------
(* The Notebook view                                                       *)

DEFAULT_NOTEBOOK_FORMAT == 4
DEFAULT_NOTEBOOK_FORMAT_MINOR == 0

\* the actions! of the notebook namespace
NotebookActions ==
    {"OpenNotebook", "RunAll", "ClearOutputs", "MoveCellUp", "MoveCellDown",
     "AddMarkdownBlock", "AddCodeBlock"}

\* impl Default for DeserializedMetadata
DefaultMetadata == [kernelspec |-> None, language_info |-> None]

\* impl Default for NotebookData
DefaultNotebookData ==
    [metadata |-> DefaultMetadata,
     nbformat |-> DEFAULT_NOTEBOOK_FORMAT,
     nbformat_minor |-> DEFAULT_NOTEBOOK_FORMAT_MINOR,
     cells |-> <<>>]

\* Cell::markdown
CellMarkdown(source) ==
    [control |-> None, cell_type |-> "Markdown", source |-> source,
     selected |-> FALSE]

\* Cell::code
CellCode(source) ==
    [control |-> None, cell_type |-> "Code", source |-> source,
     selected |-> FALSE]

\* Cell::selected
CellSelected(cell, selected) == [cell EXCEPT !.selected = selected]

\* fn sample_cells
sample_cells ==
    << CellMarkdown(<<
           "Table of Contents",
           "1.\tIntroduction",
           "2.\tOverview of Python Data Visualization Tools",
           "3.\tIntroduction to Matplotlib",
           "4.\tImport Matplotlib",
           "5.\tDisplaying Plots in Matplotlib",
           "6.\tMatplotlib Object Hierarchy",
           "7.\tMatplotlib interfaces" >>),
       CellMarkdown(<<
           "## 1. Introduction",
           "When we want to convey some information to others, there are several ways to do so. The process of conveying the information with the help of plots and graphics is called **Data Visualization**. The plots and graphics take numerical data as input and display output in the form of charts, figures and tables. It helps to analyze and visualize the data clearly and make concrete decisions. It makes complex data more accessible and understandable. The goal of data visualization is to communicate information in a clear and efficient manner.",
           "In this project, I shed some light on **Matplotlib**, which is the basic data visualization tool of Python programming language. Python has different data visualization tools available which are suitable for different purposes. First of all, I will list these data visualization tools and then I will discuss Matplotlib." >>) >>

\* Notebook::new with the selection put one past the last cell
NotebookNewPastEnd ==
    [remote_id |-> None,
     selected_cell |-> Len(sample_cells),
     cells |-> sample_cells,
     data |-> DefaultNotebookData]

\* Notebook::new (the handles are left out: focus_handle, workspace, project)
NotebookNew ==
    [remote_id |-> None,
     selected_cell |-> 0,
     cells |-> sample_cells,
     data |-> DefaultNotebookData]

\* the cells of a frame with the position counted from one where
\* selected_cell counts from zero
RenderCellsCountingFromOne(nb) ==
    [i \in DOMAIN nb.cells |->
        CellSelected(nb.cells[i], nb.selected_cell = i)]

\* what render hands to the element tree for the cells: a clone of each
\* cell, in order, with selected set for the cell at selected_cell
RenderCells(nb) ==
    [i \in DOMAIN nb.cells |->
        CellSelected(nb.cells[i], nb.selected_cell = i - 1)]

NoFrame == <<>>

NoAction == [view |-> 0, action |-> "none"]

\* how many Notebook::open tasks a run starts, and how many lines it prints
MaxOpens == 2
MaxPrints == 2

\* the state before any notebook is opened; the codec is not running
InitView ==
    /\ window = "open"
    /\ opens = <<>>
    /\ views = <<>>
    /\ pane = <<>>
    /\ frames = <<>>
    /\ stdout = 0
    /\ dispatched = NoAction
    /\ text = NoText
    /\ doc = NoDoc
    /\ result = Pending

\* init: the workspace's OpenNotebook handler defers a call of Notebook::open
WorkspaceOpenNotebook ==
    /\ window = "open"
    /\ Len(opens) < MaxOpens
    /\ opens' = Append(opens, [pc |-> "deferred", view |-> 0])
    /\ UNCHANGED <<window, views, pane, frames, stdout, dispatched, codecVars>>

\* Notebook::open up to its cx.spawn: load has been called, both tasks wait
OpenStart(i) ==
    /\ window = "open"
    /\ opens[i].pc = "deferred"
    /\ opens' = [opens EXCEPT ![i].pc = "loading"]
    /\ UNCHANGED <<window, views, pane, frames, stdout, dispatched, codecVars>>

\* the task of Notebook::load: cx.new_view(Self::new), an error once the
\* window is gone
LoadRun(i) ==
    /\ opens[i].pc = "loading"
    /\ IF window = "open"
       THEN /\ views' = Append(views, NotebookNew)
            /\ frames' = Append(frames, NoFrame)
            /\ opens' = [opens EXCEPT ![i] =
                            [pc |-> "loaded", view |-> Len(views) + 1]]
       ELSE /\ opens' = [opens EXCEPT ![i].pc = "failed"]
            /\ UNCHANGED <<views, frames>>
    /\ UNCHANGED <<window, pane, stdout, dispatched, codecVars>>

\* the task of Notebook::open with the error of pane.update dropped: it
\* resolves to Ok(notebook) whether or not the item was added
OpenFinishIgnoringPaneError(i) ==
    /\ opens[i].pc = "loaded"
    /\ opens' = [opens EXCEPT ![i].pc = "ok"]
    /\ IF window = "open"
       THEN pane' = Append(pane, opens[i].view)
       ELSE UNCHANGED pane
    /\ UNCHANGED <<window, views, frames, stdout, dispatched, codecVars>>

\* the task of Notebook::open after `notebook.await?`: pane.update adds the
\* item and the task resolves to Ok(notebook); an error once the window is gone
OpenFinish(i) ==
    /\ opens[i].pc = "loaded"
    /\ IF window = "open"
       THEN /\ pane' = Append(pane, opens[i].view)
            /\ opens' = [opens EXCEPT ![i].pc = "ok"]
       ELSE /\ opens' = [opens EXCEPT ![i].pc = "failed"]
            /\ UNCHANGED pane
    /\ UNCHANGED <<window, views, frames, stdout, dispatched, codecVars>>

CloseWindow ==
    /\ window = "open"
    /\ window' = "closed"
    /\ UNCHANGED <<opens, views, pane, frames, stdout, dispatched, codecVars>>

\* a render that sets the selected flag on the stored cells themselves
\* instead of on clones of them
RenderStoringSelection(v) ==
    /\ window = "open"
    /\ v \in Range(pane)
    /\ frames' = [frames EXCEPT ![v] = RenderCells(views[v])]
    /\ views' = [views EXCEPT ![v].cells = RenderCells(views[v])]
    /\ UNCHANGED <<window, opens, pane, stdout, dispatched, codecVars>>

\* impl Render for Notebook, for an item of the pane: the frame is built from
\* clones of the cells, the view itself is left as it is
Render(v) ==
    /\ window = "open"
    /\ v \in Range(pane)
    /\ frames' = [frames EXCEPT ![v] = RenderCells(views[v])]
    /\ UNCHANGED <<window, opens, views, pane, stdout, dispatched, codecVars>>

\* a handler that, for MoveCellDown, writes the selected cell over its
\* successor without writing the successor back
HandleActionMoveOverwrites(nb, a) ==
    IF a = "MoveCellDown" /\ nb.selected_cell + 2 <= Len(nb.cells)
    THEN [nb EXCEPT !.cells[nb.selected_cell + 2] =
                        nb.cells[nb.selected_cell + 1]]
    ELSE nb

\* a handler that, for RunAll, leaves the selection on the last cell
HandleActionRunAllSelects(nb, a) ==
    IF a = "RunAll" /\ Len(nb.cells) > 0
    THEN [nb EXCEPT !.selected_cell = Len(nb.cells) - 1]
    ELSE nb

\* the Notebook after the listeners render registered have run for action a:
\* the only listener is open_notebook, for OpenNotebook, and it does not
\* touch self; RunAll, ClearOutputs, MoveCellUp, MoveCellDown,
\* AddMarkdownBlock and AddCodeBlock have no listener
HandleAction(nb, a) == nb

\* an action dispatched to a rendered Notebook.  open_notebook prints a line.
Dispatch(v, a) ==
    /\ window = "open"
    /\ v \in DOMAIN frames
    /\ frames[v] # NoFrame
    /\ dispatched' = [view |-> v, action |-> a]
    /\ views' = [views EXCEPT ![v] = HandleAction(views[v], a)]
    /\ IF a = "OpenNotebook"
       THEN stdout < MaxPrints /\ stdout' = stdout + 1
       ELSE UNCHANGED stdout
    /\ UNCHANGED <<window, opens, pane, frames, codecVars>>

Next ==
    \/ WorkspaceOpenNotebook
    \/ \E i \in DOMAIN opens : OpenStart(i)
    \/ \E i \in DOMAIN opens : LoadRun(i)
    \/ \E i \in DOMAIN opens : OpenFinish(i)
    \/ CloseWindow
    \/ \E v \in DOMAIN views : Render(v)
    \/ \E v \in DOMAIN views : \E a \in NotebookActions : Dispatch(v, a)

Spec == InitView /\ [][Next]_vars

----------------------------------------------------------------------------
(* The texts the codec is run on                                           *)

\* the longest cell list of a text or of a document
MaxCells == 2

\* an object without its members named k
Without(obj, k) == JObj(SelectSeq(obj.o, LAMBDA e : e.k # k))
\* an object with the member k set to v: in place when it has one, else last
With(obj, k, v) ==
    IF \E i \in DOMAIN obj.o : obj.o[i].k = k
    THEN JObj([i \in DOMAIN obj.o |->
                 IF obj.o[i].k = k THEN KV(k, v) ELSE obj.o[i]])
    ELSE JObj(Append(obj.o, KV(k, v)))
\* an object with one more member at its end, whatever it already holds
Plus(obj, k, v) == JObj(Append(obj.o, KV(k, v)))

\* number literals around the limits of i32, in each lexical form
NumLits ==
    {JNumLit(neg, m[1], m[2], form) :
        neg \in BOOLEAN,
        m \in {<<0, 0>>, <<0, 4>>, <<32767, 65535>>, <<32768, 0>>, <<32768, 1>>},
        form \in {"int", "dot0", "dot5", "e999"}}

\* values that are no number
NonNumbers == {JNull, JStr("4"), JBool(TRUE), JArr(<<>>), JObj(<<>>)}

\* `source`, as one string and as line fragments
SourceForms ==
    {JStr("# Title"), JArr(<<JStr("# Title")>>),
     JArr(<<JStr("# "), JStr("Title")>>), JArr(<<>>), JStr("")}

\* opaque payloads
Payloads ==
    {JNull, JBool(FALSE), JStr("auto"), JInt(7), JNumLit(TRUE, 0, 0, "int"),
     JNumLit(FALSE, 0, 2, "dot5"), JNumLit(FALSE, 0, 0, "e999"),
     JArr(<<JStr("<Figure>"), JNull>>), JObj(<<>>),
     JObj(<<KV("text/plain", JArr(<<JStr("<Figure>")>>))>>),
     JObj(<<KV("image/png", JStr("=")), KV("image/png", JStr("=="))>>)}

EmptyCellMetadata == JObj(<<>>)
FullCellMetadata ==
    JObj(<<KV("collapsed", JBool(TRUE)), KV("scrolled", JStr("auto")),
           KV("deletable", JBool(FALSE)), KV("editable", JBool(TRUE)),
           KV("format", JStr("text/x-rst")), KV("name", JStr("intro")),
           KV("tags", JArr(<<JStr("a"), JStr("b")>>))>>)
CellMetadataFields == Range(StructFields("DeserializedCellMetadata"))

\* cell metadata objects: complete, with fields left out or null, with an
\* unknown member, and ill-typed ones
CellMetadatas ==
    {EmptyCellMetadata, FullCellMetadata}
    \cup {Without(FullCellMetadata, f) : f \in CellMetadataFields}
    \cup {With(FullCellMetadata, f, JNull) : f \in CellMetadataFields}
    \cup {With(EmptyCellMetadata, "scrolled", v) : v \in Payloads}
    \cup {Plus(EmptyCellMetadata, "jupyter", JObj(<<KV("n", JNumLit(FALSE, 0, 1, "e999"))>>)),
          With(FullCellMetadata, "collapsed", JStr("yes")),
          With(FullCellMetadata, "tags", JStr("a")),
          With(FullCellMetadata, "tags", JArr(<<JStr("a"), JNull>>)),
          With(FullCellMetadata, "name", JInt(1)),
          Plus(FullCellMetadata, "name", JStr("again"))}

MarkdownCell(source) ==
    JObj(<<KV("cell_type", JStr("markdown")), KV("metadata", EmptyCellMetadata),
           KV("source", source)>>)
RawCell(source) ==
    JObj(<<KV("cell_type", JStr("raw")), KV("metadata", EmptyCellMetadata),
           KV("source", source)>>)
CodeCell(execution_count, outputs, source) ==
    JObj(<<KV("cell_type", JStr("code")), KV("execution_count", execution_count),
           KV("metadata", EmptyCellMetadata), KV("outputs", JArr(outputs)),
           KV("source", source)>>)

StreamOutput ==
    JObj(<<KV("name", JStr("stdout")), KV("output_type", JStr("stream")),
           KV("text", JStr("AxesSubplot\n"))>>)
DisplayDataOutput ==
    JObj(<<KV("data", JObj(<<KV("text/plain", JStr("<Figure>"))>>)),
           KV("metadata", JObj(<<>>)), KV("output_type", JStr("display_data"))>>)
ExecuteResultOutput ==
    JObj(<<KV("data", JObj(<<KV("text/plain", JStr("2"))>>)),
           KV("execution_count", JInt(1)), KV("metadata", JObj(<<>>)),
           KV("output_type", JStr("execute_result"))>>)
ErrorOutput ==
    JObj(<<KV("ename", JStr("NameError")), KV("evalue", JStr("x")),
           KV("output_type", JStr("error")),
           KV("traceback", JArr(<<JStr("line 1"), JStr("line 2")>>))>>)

GoodOutputs == {StreamOutput, DisplayDataOutput, ExecuteResultOutput, ErrorOutput}

\* outputs written as arrays: the tag, then the fields of the variant
ArrayOutputs ==
    {JArr(<<JStr("stream"), JStr("stdout"), JStr("AxesSubplot\n")>>),
     JArr(<<JInt(0), JStr("stdout"), JStr("AxesSubplot\n")>>),
     JArr(<<JStr("stream"), JStr("stdout")>>),
     JArr(<<JStr("stream"), JStr("stdout"), JStr("AxesSubplot\n"), JNull>>),
     JArr(<<JStr("update_display_data"), JStr("stdout"), JStr("AxesSubplot\n")>>),
     JArr(<<JStr("execute_result"), JInt(2), JObj(<<>>), JObj(<<>>)>>)}

\* outputs: the four variants, and ones with a bad tag, a bad field or an
\* unusual payload
Outputs ==
    GoodOutputs
    \cup {With(StreamOutput, "output_type", v) :
            v \in {JStr("update_display_data"), JStr(""), JNull, JInt(0),
                   JInt(3), JInt(4), JNumLit(FALSE, 0, 0, "dot0")}}
    \cup {Without(o, "output_type") : o \in GoodOutputs}
    \cup {Plus(StreamOutput, "output_type", JStr("stream")),
          With(StreamOutput, "text", JArr(<<JStr("AxesSubplot\n")>>)),
          Without(StreamOutput, "name"),
          Without(DisplayDataOutput, "metadata"),
          Without(ErrorOutput, "traceback"),
          JNull, JArr(<<>>)}
    \cup ArrayOutputs
    \cup {With(DisplayDataOutput, "data", v) : v \in Payloads}
    \cup {With(ExecuteResultOutput, "execution_count", n) :
            n \in NumLits \cup {JNull}}

BaseCodeCell == CodeCell(JInt(1), <<>>, JStr("x = 1"))

\* cells that decode whichever cell they stand next to
FillerCells == {MarkdownCell(JStr("# Title")), CodeCell(JNull, <<>>, JStr("x = 1"))}

\* cells written as arrays: the tag, then the fields of the variant
ArrayCells ==
    {JArr(<<JStr("markdown"), EmptyCellMetadata, JStr("# Title")>>),
     JArr(<<JStr("markdown"), EmptyCellMetadata, JStr("# Title"), JStr("auto")>>),
     JArr(<<JStr("markdown"), EmptyCellMetadata, JStr("# Title"), JNull, JNull>>),
     JArr(<<JStr("markdown"), EmptyCellMetadata>>),
     JArr(<<JStr("markdown"), EmptyCellMetadata, JArr(<<JStr("# Title")>>)>>),
     JArr(<<JStr("raw"), EmptyCellMetadata, JStr("raw")>>),
     JArr(<<JStr("raw"), EmptyCellMetadata, JStr("raw"), JNull>>),
     JArr(<<JStr("raw"), JArr(<<JBool(TRUE)>>), JStr("raw")>>),
     JArr(<<JStr("heading"), EmptyCellMetadata, JStr("# Title")>>),
     JArr(<<JInt(1), EmptyCellMetadata, JStr("# Title")>>),
     JArr(<<JStr("markdown"), EmptyCellMetadata, JNumLit(FALSE, 0, 1, "e999")>>),
     JArr(<<JStr("code"), EmptyCellMetadata, JInt(1), JStr("x = 1"), JArr(<<>>)>>),
     JArr(<<JStr("code"), EmptyCellMetadata, JInt(1), JStr("x = 1")>>),
     JArr(<<JStr("code"), EmptyCellMetadata, JInt(1), JStr("x = 1"),
            JArr(<<JArr(<<JStr("stream"), JStr("stdout"), JStr("1\n")>>)>>)>>)}

\* the cells tried: every form of every field, one deviation at a time
Cells ==
    {MarkdownCell(s) : s \in SourceForms \cup {JNull, JInt(1)}}
    \cup {RawCell(s) : s \in SourceForms}
    \cup {CodeCell(JInt(1), <<>>, s) : s \in SourceForms}
    \cup {With(MarkdownCell(JStr("# Title")), "metadata", m) : m \in CellMetadatas \cup {JNull, JArr(<<>>)}}
    \cup {Plus(MarkdownCell(JStr("# Title")), "attachments", v) : v \in Payloads}
    \cup {CodeCell(n, <<>>, JStr("x = 1")) : n \in NumLits \cup NonNumbers}
    \cup {CodeCell(JInt(1), <<o>>, JStr("x = 1")) : o \in Outputs}
    \cup {CodeCell(JInt(1), <<StreamOutput, o, ErrorOutput>>, JStr("x = 1")) : o \in Outputs}
    \cup {With(BaseCodeCell, "outputs", v) : v \in {JNull, JObj(<<>>)}}
    \cup {Without(c, f) :
            c \in {MarkdownCell(JStr("# Title")), RawCell(JStr("raw")), BaseCodeCell},
            f \in {"cell_type", "metadata", "source", "execution_count", "outputs"}}
    \cup {With(BaseCodeCell, "cell_type", v) :
            v \in {JStr("unknown"), JStr("Code"), JStr("heading"), JNull,
                   JInt(1), JNumLit(FALSE, 0, 1, "e999")}}
    \cup {Plus(BaseCodeCell, "cell_type", JStr("code")),
          Plus(BaseCodeCell, "source", JStr("x = 2")),
          Plus(BaseCodeCell, "id", JNumLit(FALSE, 0, 1, "e999")),
          Plus(BaseCodeCell, "id", JStr("a1")),
          Without(Plus(BaseCodeCell, "cell_type", JStr("code")), "cell_type"),
          JObj(<<KV("source", JStr("late tag")), KV("metadata", EmptyCellMetadata),
                 KV("cell_type", JStr("raw"))>>),
          JNull, JStr("code"), JArr(<<>>), JObj(<<>>)}
    \cup ArrayCells

\* cell lists: up to MaxCells cells, one of them any cell, the others fillers
CellLists ==
    {<<>>} \cup
    UNION {{[i \in 1..n |-> IF i = at THEN c ELSE fill[i]] :
              at \in 1..n, c \in Cells, fill \in [1..n -> FillerCells]} :
           n \in 1..MaxCells}

EmptyMetadata == JObj(<<>>)
FullMetadata ==
    JObj(<<KV("kernelspec", JObj(<<KV("display_name", JStr("Python 3")),
                                   KV("name", JStr("python3"))>>)),
           KV("language_info", JObj(<<KV("codemirror_mode", JStr("ipython")),
                                      KV("name", JStr("python")),
                                      KV("version", JStr("3.8"))>>))>>)

\* top-level `metadata` values
Metadatas ==
    {EmptyMetadata, FullMetadata, JNull, JArr(<<>>), JStr("none"),
     JNumLit(FALSE, 0, 1, "e999"),
     With(FullMetadata, "kernelspec", JNull),
     With(FullMetadata, "language_info", JNull),
     With(FullMetadata, "kernelspec", JObj(<<>>)),
     With(FullMetadata, "kernelspec", JObj(<<KV("name", JInt(3))>>)),
     With(FullMetadata, "kernelspec", JObj(<<KV("name", JNumLit(FALSE, 0, 3, "e999"))>>)),
     With(FullMetadata, "language_info", JObj(<<KV("name", JStr("python"))>>)),
     With(FullMetadata, "language_info", JObj(<<KV("version", JStr("3.8"))>>)),
     With(FullMetadata, "language_info",
          JObj(<<KV("name", JStr("python")), KV("version", JNull),
                 KV("codemirror_mode", JObj(<<KV("name", JStr("ipython"))>>))>>)),
     Plus(EmptyMetadata, "orig_nbformat", JNumLit(FALSE, 0, 4, "e999")),
     Plus(FullMetadata, "kernelspec", JNull)}

\* a notebook object, members in the order Jupyter writes them
NotebookObject(cells, metadata, nbformat, nbformat_minor) ==
    JObj(<<KV("cells", JArr(cells)), KV("metadata", metadata),
           KV("nbformat", nbformat), KV("nbformat_minor", nbformat_minor)>>)

BaseCells == <<MarkdownCell(JStr("# Title")), BaseCodeCell>>
BaseNotebook == NotebookObject(BaseCells, EmptyMetadata, JInt(4), JInt(0))
NotebookFields == Range(StructFields("DeserializedNotebook"))

RECURSIVE WithoutAll(_, _)
\* an object without the members named in ks
WithoutAll(obj, ks) ==
    IF ks = {} THEN obj
    ELSE LET k == CHOOSE k \in ks : TRUE IN WithoutAll(Without(obj, k), ks \ {k})

\* the notebook objects tried
Notebooks ==
    {NotebookObject(cells, EmptyMetadata, JInt(4), JInt(0)) : cells \in CellLists}
    \cup {NotebookObject(BaseCells, m, JInt(4), JInt(0)) : m \in Metadatas}
    \cup {NotebookObject(BaseCells, EmptyMetadata, n, JInt(0)) : n \in NumLits \cup NonNumbers}
    \cup {NotebookObject(BaseCells, EmptyMetadata, JInt(4), n) : n \in NumLits \cup NonNumbers}
    \cup {NotebookObject(BaseCells, EmptyMetadata, JInt(n), JInt(m)) :
            n \in {1, 3, 4, 5, 99}, m \in {0, 2, 5, 99}}
    \cup {WithoutAll(BaseNotebook, ks) : ks \in SUBSET NotebookFields}
    \cup {WithoutAll(NotebookObject(<<MarkdownCell(JArr(<<JStr("# Title")>>))>>,
                                    EmptyMetadata, JInt(4), JInt(0)), ks) :
            ks \in SUBSET NotebookFields}
    \cup {With(BaseNotebook, "cells", v) : v \in {JNull, JObj(<<>>), JStr("")}}
    \cup {Plus(BaseNotebook, k, JInt(4)) : k \in {"nbformat", "nbformat_minor", "version"}}
    \cup {Plus(BaseNotebook, "worksheets", JArr(<<JNumLit(FALSE, 0, 1, "e999")>>)),
          Plus(With(BaseNotebook, "cells", JArr(<<With(BaseCodeCell, "cell_type", JStr("unknown"))>>)),
               "worksheets", JArr(<<>>)),
          With(With(BaseNotebook, "nbformat", JNumLit(FALSE, 0, 1, "e999")),
               "cells", JArr(<<With(BaseCodeCell, "cell_type", JStr("unknown"))>>))}

\* roots that are no object: a notebook written as an array is its fields in
\* declaration order
OtherRoots ==
    {JNull, JArr(<<>>), JStr("notebook"), JInt(4), JNumLit(FALSE, 0, 4, "e999"),
     JArr(<<EmptyMetadata, JInt(4), JInt(0), JArr(BaseCells)>>),
     JArr(<<EmptyMetadata, JInt(5), JInt(0), JArr(<<>>)>>),
     JArr(<<EmptyMetadata, JInt(4), JInt(0), JArr(BaseCells), JNull>>),
     JArr(<<EmptyMetadata, JInt(4), JInt(0)>>),
     JArr(<<JArr(<<JArr(<<JStr("python3")>>)>>), JInt(4), JInt(0), JArr(<<>>)>>),
     JArr(<<JArr(<<JNull, JNull, JNull>>), JInt(4), JInt(0), JArr(<<>>)>>),
     JArr(<<JArr(<<>>), JInt(4), JInt(0), JArr(<<>>)>>),
     JArr(<<EmptyMetadata, JStr("4"), JInt(0), JArr(<<>>)>>)}

\* fn deserializable_sample_notebook: the text it returns, member by member
\* in text order.  A character outside ASCII is written as its JSON escape
\* (\u2022 for the bullet, \u2013 for the dash), and so is the backquote
\* (\u0060).
deserializable_sample_notebook ==
    JsonText(JObj(<<
      KV("cells", JArr(<<
        JObj(<<
          KV("cell_type", JStr("markdown")),
          KV("metadata", JObj(<<>>)),
          KV("source", JArr(<<
            JStr("Data Visualization with Matplotlib\n==="),
            JStr("\n"),
            JStr("\n"),
            JStr("This project is all about Matplotlib, the basic data visualization tool of Python programming language. I have discussed Matplotlib object hierarchy, various plot types with Matplotlib and customization techniques associated with Matplotlib. \n"),
            JStr("\n"),
            JStr("\n"),
            JStr("This project is divided into various sections based on contents which are listed below:- \n") >>)) >>),
        JObj(<<
          KV("cell_type", JStr("markdown")),
          KV("metadata", JObj(<<>>)),
          KV("source", JArr(<<
            JStr("Table of Contents\n==="),
            JStr("\n"),
            JStr("\n"),
            JStr("1.\tIntroduction\n"),
            JStr("\n"),
            JStr("2.\tOverview of Python Data Visualization Tools\n"),
            JStr("\n"),
            JStr("3.\tIntroduction to Matplotlib\n"),
            JStr("\n"),
            JStr("4.\tImport Matplotlib\n"),
            JStr("\n"),
            JStr("5.\tDisplaying Plots in Matplotlib\n"),
            JStr("\n"),
            JStr("6.\tMatplotlib Object Hierarchy\n"),
            JStr("\n"),
            JStr("7.\tMatplotlib interfaces\n"),
            JStr("\n"),
            JStr("8.\tPyplot API\n"),
            JStr("\n"),
            JStr("9.\tObject-Oriented API\n"),
            JStr("\n"),
            JStr("10.\tFigure and Subplots\n"),
            JStr("\n"),
            JStr("11.\tFirst plot with Matplotlib\n"),
            JStr("\n"),
            JStr("12.\tMultiline Plots\n"),
            JStr("\n"),
            JStr("13.\tParts of a Plot\n"),
            JStr("\n"),
            JStr("14.\tSaving the Plot\n"),
            JStr("\n"),
            JStr("15.\tLine Plot\n"),
            JStr("\n"),
            JStr("16.\tScatter Plot\n"),
            JStr("\n"),
            JStr("17.\tHistogram\n"),
            JStr("\n"),
            JStr("18.\tBar Chart\n"),
            JStr("\n"),
            JStr("19.\tHorizontal Bar Chart\n"),
            JStr("\n"),
            JStr("20.\tError Bar Chart\n"),
            JStr("\n"),
            JStr("21.\tMultiple Bar Chart\n"),
            JStr("\n"),
            JStr("22.\tStacked Bar Chart\n"),
            JStr("\n"),
            JStr("23.\tBack-to-back Bar Chart\n"),
            JStr("\n"),
            JStr("24.\tPie Chart\n"),
            JStr("\n"),
            JStr("25.\tBox Plot\n"),
            JStr("\n"),
            JStr("26.\tArea Chart\n"),
            JStr("\n"),
            JStr("27.\tContour Plot\n"),
            JStr("\n"),
            JStr("28.\tImage Plot\n"),
            JStr("\n"),
            JStr("29.\tPolar Chart\n"),
            JStr("\n"),
            JStr("30.\t3D Plotting with Matplotlib\n"),
            JStr("\n"),
            JStr("31.\tStyles with Matplotlib Plots\n"),
            JStr("\n"),
            JStr("32.\tAdding a grid\n"),
            JStr("\n"),
            JStr("33.\tHandling axes\n"),
            JStr("\n"),
            JStr("34.\tHandling X and Y ticks\n"),
            JStr("\n"),
            JStr("35.\tAdding labels\n"),
            JStr("\n"),
            JStr("36.\tAdding a title\n"),
            JStr("\n"),
            JStr("37.\tAdding a legend\n"),
            JStr("\n"),
            JStr("38.\tControl colours\n"),
            JStr("\n"),
            JStr("39.\tControl line styles\n"),
            JStr(" \n"),
            JStr("40.\tSummary\n") >>)) >>),
        JObj(<<
          KV("cell_type", JStr("markdown")),
          KV("metadata", JObj(<<>>)),
          KV("source", JArr(<<
            JStr("1. Introduction\n"),
            JStr("\n"),
            JStr("\n"),
            JStr("When we want to convey some information to others, there are several ways to do so. The process of conveying the information with the help of plots and graphics is called **Data Visualization**. The plots and graphics take numerical data as input and display output in the form of charts, figures and tables. It helps to analyze and visualize the data clearly and make concrete decisions. It makes complex data more accessible and understandable. The goal of data visualization is to communicate information in a clear and efficient manner.\n"),
            JStr("\n"),
            JStr("\n"),
            JStr("In this project, I shed some light on **Matplotlib**, which is the basic data visualization tool of Python programming language. Python has different data visualization tools available which are suitable for different purposes. First of all, I will list these data visualization tools and then I will discuss Matplotlib.\n") >>)) >>),
        JObj(<<
          KV("cell_type", JStr("markdown")),
          KV("metadata", JObj(<<>>)),
          KV("source", JArr(<<
            JStr("2. Overview of Python Visualization Tools\n"),
            JStr("\n"),
            JStr("\n"),
            JStr("\n"),
            JStr("Python is the preferred language of choice for data scientists. Python have multiple options for data visualization. It has several tools which can help us to visualize the data more effectively. These Python data visualization tools are as follows:-\n"),
            JStr("\n"),
            JStr("\n"),
            JStr("\n"),
            JStr("\\u2022\tMatplotlib\n"),
            JStr("\n"),
            JStr("\\u2022\tSeaborn\n"),
            JStr("\n"),
            JStr("\\u2022\tpandas\n"),
            JStr("\n"),
            JStr("\\u2022\tBokeh\n"),
            JStr("\n"),
            JStr("\\u2022\tPlotly\n"),
            JStr("\n"),
            JStr("\\u2022\tggplot\n"),
            JStr("\n"),
            JStr("\\u2022\tpygal\n"),
            JStr("\n"),
            JStr("\n"),
            JStr("\n"),
            JStr("In the following sections, I discuss Matplotlib as the data visualization tool. \n") >>)) >>),
        JObj(<<
          KV("cell_type", JStr("markdown")),
          KV("metadata", JObj(<<>>)),
          KV("source", JArr(<<
            JStr("3. Introduction to Matplotlib\n"),
            JStr("\n"),
            JStr("\n"),
            JStr("**Matplotlib** is the basic plotting library of Python programming language. It is the most prominent tool among Python visualization packages. Matplotlib is highly efficient in performing wide range of tasks. It can produce publication quality figures in a variety of formats.  It can export visualizations to all of the common formats like PDF, SVG, JPG, PNG, BMP and GIF. It can create popular visualization types \\u2013 line plot, scatter plot, histogram, bar chart, error charts, pie chart, box plot, and many more types of plot. Matplotlib also supports 3D plotting. Many Python libraries are built on top of Matplotlib. For example, pandas and Seaborn are built on Matplotlib. They allow to access Matplotlib's methods with less code. \n"),
            JStr("\n"),
            JStr("\n"),
            JStr("The project **Matplotlib** was started by John Hunter in 2002. Matplotlib was originally started to visualize Electrocorticography (ECoG) data of epilepsy patients during post-doctoral research in Neurobiology. The open-source tool Matplotlib emerged as the most widely used plotting library for the Python programming language. It was used for data visualization during landing of the Phoenix spacecraft in 2008.\n") >>)) >>),
        JObj(<<
          KV("cell_type", JStr("markdown")),
          KV("metadata", JObj(<<>>)),
          KV("source", JArr(<<
            JStr("\n"),
            JStr("4. Import Matplotlib\n"),
            JStr("\n"),
            JStr("Before, we need to actually start using Matplotlib, we need to import it. We can import Matplotlib as follows:-\n"),
            JStr("\n"),
            JStr("\\u0060import matplotlib\\u0060\n"),
            JStr("\n"),
            JStr("\n"),
            JStr("Most of the time, we have to work with **pyplot** interface of Matplotlib. So, I will import **pyplot** interface of Matplotlib as follows:-\n"),
            JStr("\n"),
            JStr("\n"),
            JStr("\\u0060import matplotlib.pyplot\\u0060\n"),
            JStr("\n"),
            JStr("\n"),
            JStr("To make things even simpler, we will use standard shorthand for Matplotlib imports as follows:-\n"),
            JStr("\n"),
            JStr("\n"),
            JStr("\\u0060import matplotlib.pyplot as plt\\u0060\n"),
            JStr("\n") >>)) >>),
        JObj(<<
          KV("cell_type", JStr("code")),
          KV("execution_count", JInt(1)),
          KV("metadata", JObj(<<>>)),
          KV("outputs", JArr(<<>>)),
          KV("source", JArr(<<
            JStr("Import dependencies\n"),
            JStr("\n"),
            JStr("import numpy as np\n"),
            JStr("import pandas as pd") >>)) >>),
        JObj(<<
          KV("cell_type", JStr("code")),
          KV("execution_count", JInt(2)),
          KV("metadata", JObj(<<>>)),
          KV("outputs", JArr(<<>>)),
          KV("source", JArr(<<
            JStr("Import Matplotlib\n"),
            JStr("\n"),
            JStr("import matplotlib.pyplot as plt ") >>)) >>),
        JObj(<<
          KV("cell_type", JStr("markdown")),
          KV("metadata", JObj(<<>>)),
          KV("source", JArr(<<
            JStr("5. Displaying Plots in Matplotlib\n"),
            JStr("\n"),
            JStr("\n"),
            JStr("Viewing the Matplotlib plot is context based. The best usage of Matplotlib differs depending on how we are using it. \n"),
            JStr("There are three applicable contexts for viewing the plots. The three applicable contexts are using plotting from a script, plotting from an IPython shell or plotting from a Jupyter notebook.\n") >>)) >>),
        JObj(<<
          KV("cell_type", JStr("markdown")),
          KV("metadata", JObj(<<>>)),
          KV("source", JArr(<<
            JStr("Plotting from a script\n"),
            JStr("\n"),
            JStr("\n"),
            JStr("\n"),
            JStr("If we are using Matplotlib from within a script, then the **plt.show()** command is of great use. It starts an event loop, \n"),
            JStr("looks for all currently active figure objects, and opens one or more interactive windows that display the figure or figures.\n"),
            JStr("\n"),
            JStr("\n"),
            JStr("The **plt.show()** command should be used only once per Python session. It should be used only at the end of the script. Multiple **plt.show()** commands can lead to unpredictable results and should mostly be avoided.\n") >>)) >>),
        JObj(<<
          KV("cell_type", JStr("markdown")),
          KV("metadata", JObj(<<>>)),
          KV("source", JArr(<<
            JStr("Plotting from an IPython shell\n"),
            JStr("\n"),
            JStr("\n"),
            JStr("We can use Matplotlib interactively within an IPython shell. IPython works well with Matplotlib if we specify Matplotlib mode. To enable this mode, we can use the **%matplotlib** magic command after starting ipython. Any plt plot command will cause a figure window to open and further commands can be run to update the plot.\n"),
            JStr("\n") >>)) >>),
        JObj(<<
          KV("cell_type", JStr("markdown")),
          KV("metadata", JObj(<<>>)),
          KV("source", JArr(<<
            JStr("Plotting from a Jupyter notebook\n"),
            JStr("\n"),
            JStr("\n"),
            JStr("The Jupyter Notebook (formerly known as the IPython Notebook) is a data analysis and visualization tool that provides multiple tools under one roof.  It provides code execution, graphical plots, rich text and media display, mathematics formula and much more facilities into a single executable document.\n"),
            JStr("\n"),
            JStr("\n"),
            JStr("Interactive plotting within a Jupyter Notebook can be done with the **%matplotlib** command. There are two possible options to work with graphics in Jupyter Notebook. These are as follows:-\n"),
            JStr("\n"),
            JStr("\n"),
            JStr("\\u2022\t**%matplotlib notebook** \\u2013 This command will produce interactive plots embedded within the notebook.\n"),
            JStr("\n"),
            JStr("\\u2022\t**%matplotlib inline** \\u2013 It will output static images of the plot embedded in the notebook.\n"),
            JStr("\n"),
            JStr("\n"),
            JStr("After this command (it needs to be done only once per kernel per session), any cell within the notebook that creates a plot will embed a PNG image of the graphic.\n") >>)) >>),
        JObj(<<
          KV("cell_type", JStr("code")),
          KV("execution_count", JInt(3)),
          KV("metadata", JObj(<<>>)),
          KV("outputs", JArr(<<
            JObj(<<
              KV("data", JObj(<<
                KV("image/png", JStr("i=\n")),
                KV("text/plain", JArr(<<
                  JStr("<Figure size 432x288 with 1 Axes>") >>)) >>)),
              KV("metadata", JObj(<<
                KV("needs_background", JStr("light")) >>)),
              KV("output_type", JStr("display_data")) >>) >>)),
          KV("source", JArr(<<
            JStr("%matplotlib inline\n"),
            JStr("\n"),
            JStr("\n"),
            JStr("x1 = np.linspace(0, 10, 100)\n"),
            JStr("\n"),
            JStr("\n"),
            JStr("create a plot figure\n"),
            JStr("fig = plt.figure()\n"),
            JStr("\n"),
            JStr("plt.plot(x1, np.sin(x1), '-')\n"),
            JStr("plt.plot(x1, np.cos(x1), '--');") >>)) >>),
        JObj(<<
          KV("cell_type", JStr("markdown")),
          KV("metadata", JObj(<<>>)),
          KV("source", JArr(<<
            JStr("6. Matplotlib Object Hierarchy\n"),
            JStr("\n"),
            JStr("\n"),
            JStr("There is an Object Hierarchy within Matplotlib. In Matplotlib, a plot is a hierarchy of nested Python objects. \n"),
            JStr("A**hierarch** means that there is a tree-like structure of Matplotlib objects underlying each plot.\n"),
            JStr("\n"),
            JStr("\n"),
            JStr("A **Figure** object is the outermost container for a Matplotlib plot. The **Figure** object contain multiple **Axes** objects. So, the **Figure** is the final graphic that may contain one or more **Axes**. The **Axes** represent an individual plot.\n"),
            JStr("\n"),
            JStr("\n"),
            JStr("So, we can think of the **Figure** object as a box-like container containing one or more **Axes**. The **Axes** object contain smaller objects such as tick marks, lines, legends, title and text-boxes.\n") >>)) >>),
        JObj(<<
          KV("cell_type", JStr("markdown")),
          KV("metadata", JObj(<<>>)),
          KV("source", JArr(<<
            JStr("7.\tMatplotlib API Overview\n"),
            JStr("\n"),
            JStr("\n"),
            JStr("\n"),
            JStr("Matplotlib has two APIs to work with. A MATLAB-style state-based interface and a more powerful object-oriented (OO) interface. \n"),
            JStr("The former MATLAB-style state-based interface is called **pyplot interface** and the latter is called **Object-Oriented** interface.\n"),
            JStr("\n"),
            JStr("\n"),
            JStr("There is a third interface also called **pylab** interface. It merges pyplot (for plotting) and NumPy (for mathematical functions) together in an environment closer to MATLAB. This is considered bad practice nowadays. So, the use of **pylab** is strongly discouraged and hence, I will not discuss it any further.\n") >>)) >>),
        JObj(<<
          KV("cell_type", JStr("markdown")),
          KV("metadata", JObj(<<>>)),
          KV("source", JArr(<<
            JStr("8. Pyplot API \n"),
            JStr("\n"),
            JStr("\n"),
            JStr("**Matplotlib.pyplot** provides a MATLAB-style, procedural, state-machine interface to the underlying object-oriented library in Matplotlib. **Pyplot** is a collection of command style functions that make Matplotlib work like MATLAB. Each pyplot function makes some change to a figure - e.g., creates a figure, creates a plotting area in a figure etc. \n"),
            JStr("\n"),
            JStr("\n"),
            JStr("**Matplotlib.pyplot** is stateful because the underlying engine keeps track of the current figure and plotting area information and plotting functions change that information. To make it clearer, we did not use any object references during our plotting we just issued a pyplot command, and the changes appeared in the figure.\n"),
            JStr("\n"),
            JStr("\n"),
            JStr("We can get a reference to the current figure and axes using the following commands-\n"),
            JStr("\n"),
            JStr("\n"),
            JStr("\\u0060plt.gcf ( )\\u0060   # get current figure\n"),
            JStr("\n"),
            JStr("\\u0060plt.gca ( )\\u0060   # get current axes \n"),
            JStr("\n"),
            JStr(" \n"),
            JStr("**Matplotlib.pyplot** is a collection of commands and functions that make Matplotlib behave like MATLAB (for plotting). \n"),
            JStr("The MATLAB-style tools are contained in the pyplot (plt) interface. \n"),
            JStr("\n"),
            JStr("This is really helpful for interactive plotting, because we can issue a command and see the result immediately. But, it is not suitable for more complicated cases. For these cases, we have another interface called **Object-Oriented** interface, described later.\n") >>)) >>),
        JObj(<<
          KV("cell_type", JStr("markdown")),
          KV("metadata", JObj(<<>>)),
          KV("source", JArr(<<
            JStr("The following code produces sine and cosine curves using Pyplot API.") >>)) >>),
        JObj(<<
          KV("cell_type", JStr("code")),
          KV("execution_count", JInt(4)),
          KV("metadata", JObj(<<>>)),
          KV("outputs", JArr(<<
            JObj(<<
              KV("data", JObj(<<
                KV("image/png", JStr("ig==\n")),
                KV("text/plain", JArr(<<
                  JStr("<Figure size 432x288 with 2 Axes>") >>)) >>)),
              KV("metadata", JObj(<<
                KV("needs_background", JStr("light")) >>)),
              KV("output_type", JStr("display_data")) >>) >>)),
          KV("source", JArr(<<
            JStr("create a plot figure\n"),
            JStr("plt.figure()\n"),
            JStr("\n"),
            JStr("\n"),
            JStr("create the first of two panels and set current axis\n"),
            JStr("plt.subplot(2, 1, 1)   # (rows, columns, panel number)\n"),
            JStr("plt.plot(x1, np.sin(x1))\n"),
            JStr("\n"),
            JStr("\n"),
            JStr("create the second of two panels and set current axis\n"),
            JStr("plt.subplot(2, 1, 2)   # (rows, columns, panel number)\n"),
            JStr("plt.plot(x1, np.cos(x1));\n") >>)) >>),
        JObj(<<
          KV("cell_type", JStr("code")),
          KV("execution_count", JInt(5)),
          KV("metadata", JObj(<<>>)),
          KV("outputs", JArr(<<
            JObj(<<
              KV("name", JStr("stdout")),
              KV("output_type", JStr("stream")),
              KV("text", JArr(<<
                JStr("Figure(432x288)\n") >>)) >>),
            JObj(<<
              KV("data", JObj(<<
                KV("text/plain", JArr(<<
                  JStr("<Figure size 432x288 with 0 Axes>") >>)) >>)),
              KV("metadata", JObj(<<>>)),
              KV("output_type", JStr("display_data")) >>) >>)),
          KV("source", JArr(<<
            JStr("get current figure information\n"),
            JStr("\n"),
            JStr("print(plt.gcf())") >>)) >>),
        JObj(<<
          KV("cell_type", JStr("code")),
          KV("execution_count", JInt(6)),
          KV("metadata", JObj(<<>>)),
          KV("outputs", JArr(<<
            JObj(<<
              KV("name", JStr("stdout")),
              KV("output_type", JStr("stream")),
              KV("text", JArr(<<
                JStr("AxesSubplot(0.125,0.125;0.775x0.755)\n") >>)) >>),
            JObj(<<
              KV("data", JObj(<<
                KV("image/png", JStr("=\n")),
                KV("text/plain", JArr(<<
                  JStr("<Figure size 432x288 with 1 Axes>") >>)) >>)),
              KV("metadata", JObj(<<
                KV("needs_background", JStr("light")) >>)),
              KV("output_type", JStr("display_data")) >>) >>)),
          KV("source", JArr(<<
            JStr("get current axis information\n"),
            JStr("\n"),
            JStr("print(plt.gca())") >>)) >>) >>)) >>))

\* the texts tried
Texts ==
    {EmptyText, NotJsonText, BadIdentText, CutIdentText,
     deserializable_sample_notebook}
    \cup {JsonText(r) : r \in Notebooks \cup OtherRoots}
    \cup {TrailingText(r) :
            r \in {BaseNotebook, Without(BaseNotebook, "metadata"),
                   With(BaseNotebook, "nbformat", JStr("4")),
                   With(BaseNotebook, "nbformat", JNumLit(FALSE, 0, 1, "e999")),
                   JNull}}

----------------------------------------------------------------------------
(* The documents the serializer is run on                                  *)

\* Value payloads of a document
ValuePayloads ==
    {VNull, VBool(TRUE), VString("auto"),
     VNumber("PosInt", FALSE, 0, 7, FALSE), VNumber("NegInt", TRUE, 0, 7, FALSE),
     VNumber("Float", TRUE, 0, 0, FALSE), VNumber("Float", FALSE, 0, 2, TRUE),
     VArray(<<VString("<Figure>"), VNull>>), VObject(<<>>),
     VObject(<<KV("text/plain", VArray(<<VString("<Figure>")>>))>>)}

\* i32 values, the limits among them
I32Values == {0, 1, 4, -1, 65536, 2147483647, -2147483647 - 1}

NoCellMetadata ==
    [collapsed |-> None, scrolled |-> None, deletable |-> None,
     editable |-> None, format |-> None, name |-> None, tags |-> None]
SomeCellMetadata ==
    [collapsed |-> Some(TRUE), scrolled |-> Some(VBool(FALSE)),
     deletable |-> Some(FALSE), editable |-> Some(TRUE),
     format |-> Some("text/x-rst"), name |-> Some("intro"),
     tags |-> Some(<<"a", "b">>)]

\* DeserializedCellMetadata values
DocCellMetadatas ==
    {NoCellMetadata, SomeCellMetadata}
    \cup {[SomeCellMetadata EXCEPT ![f] = None] : f \in CellMetadataFields}
    \cup {[NoCellMetadata EXCEPT !.scrolled = Some(x)] : x \in ValuePayloads}
    \cup {[NoCellMetadata EXCEPT !.tags = Some(<<>>)],
          [NoCellMetadata EXCEPT !.name = Some("")]}

DocMarkdown(metadata, source, attachments) ==
    [cell_type |-> "markdown", metadata |-> metadata, source |-> source,
     attachments |-> attachments]
DocCode(metadata, execution_count, source, outputs) ==
    [cell_type |-> "code", metadata |-> metadata,
     execution_count |-> execution_count, source |-> source,
     outputs |-> outputs]
DocRaw(metadata, source) ==
    [cell_type |-> "raw", metadata |-> metadata, source |-> source]

\* DeserializedOutput values
DocOutputs ==
    {[output_type |-> "stream", name |-> "stdout", text |-> "AxesSubplot\n"],
     [output_type |-> "error", ename |-> "NameError", evalue |-> "x",
      traceback |-> <<"line 1", "line 2">>],
     [output_type |-> "error", ename |-> "", evalue |-> "", traceback |-> <<>>]}
    \cup {[output_type |-> "display_data", data |-> x, metadata |-> VObject(<<>>)] :
            x \in ValuePayloads}
    \cup {[output_type |-> "display_data", data |-> VObject(<<>>), metadata |-> x] :
            x \in ValuePayloads}
    \cup {[output_type |-> "execute_result", execution_count |-> n,
           data |-> VObject(<<KV("text/plain", VString("2"))>>),
           metadata |-> VObject(<<>>)] : n \in I32Values}

DocFillerCells ==
    {DocMarkdown(NoCellMetadata, "# Title", None),
     DocCode(NoCellMetadata, None, "x = 1", <<>>)}

\* DeserializedCell values
DocCells ==
    {DocMarkdown(m, "# Title", None) : m \in DocCellMetadatas}
    \cup {DocMarkdown(NoCellMetadata, "", Some(x)) : x \in ValuePayloads}
    \cup {DocRaw(m, "raw") : m \in {NoCellMetadata, SomeCellMetadata}}
    \cup {DocCode(NoCellMetadata, Some(n), "x = 1", <<>>) : n \in I32Values}
    \cup {DocCode(SomeCellMetadata, None, "x = 1", <<o>>) : o \in DocOutputs}
    \cup {DocCode(NoCellMetadata, Some(1), "", <<o, o>>) : o \in DocOutputs}

DocCellLists ==
    {<<>>} \cup
    UNION {{[i \in 1..n |-> IF i = at THEN c ELSE fill[i]] :
              at \in 1..n, c \in DocCells, fill \in [1..n -> DocFillerCells]} :
           n \in 1..MaxCells}

\* DeserializedMetadata values
DocMetadatas ==
    {DefaultMetadata,
     [kernelspec |-> Some([name |-> "python3"]), language_info |-> None],
     [kernelspec |-> None,
      language_info |-> Some([name |-> "python", version |-> None,
                              codemirror_mode |-> None])],
     [kernelspec |-> Some([name |-> ""]),
      language_info |-> Some([name |-> "python", version |-> Some("3.8"),
                              codemirror_mode |-> Some("ipython")])]}

\* DeserializedNotebook values
Documents ==
    {[metadata |-> DefaultMetadata, nbformat |-> DEFAULT_NOTEBOOK_FORMAT,
      nbformat_minor |-> DEFAULT_NOTEBOOK_FORMAT_MINOR, cells |-> cells] :
        cells \in DocCellLists}
    \cup {[metadata |-> m, nbformat |-> a, nbformat_minor |-> b,
           cells |-> <<DocMarkdown(NoCellMetadata, "# Title", None)>>] :
            m \in DocMetadatas, a \in I32Values, b \in I32Values}

----------------------------------------------------------------------------
(* The codec as a state machine                                            *)

\* a text to decode, or a document to encode
InitCodec ==
    /\ \/ text \in Texts /\ doc = NoDoc
       \/ text = NoText /\ doc \in Documents
    /\ result = Pending
    /\ window = "open"
    /\ opens = <<>>
    /\ views = <<>>
    /\ pane = <<>>
    /\ frames = <<>>
    /\ stdout = 0
    /\ dispatched = NoAction

\* deserialize_notebook on the text at hand
Decode ==
    /\ text # NoText
    /\ result = Pending
    /\ result' = deserialize_notebook(text)
    /\ UNCHANGED <<text, doc, viewVars>>

\* the document at hand is serialized
Encode ==
    /\ doc # NoDoc
    /\ text = NoText
    /\ text' = serialize_notebook(doc)
    /\ UNCHANGED <<doc, result, viewVars>>

\* a decoded document is taken up to be serialized again
Reencode ==
    /\ doc = NoDoc
    /\ result # Pending
    /\ result.ok
    /\ doc' = result.v
    /\ text' = NoText
    /\ result' = Pending
    /\ UNCHANGED viewVars

CodecNext == Decode \/ Encode \/ Reencode

CodecSpec == InitCodec /\ [][CodecNext]_vars

----------------------------------------------------------------------------
(* Reading a text, for the statements below                                *)

IsObj(v) == v.t = "obj"
HasMember(obj, k) == \E i \in DOMAIN obj.o : obj.o[i].k = k
\* the value of the first member named k
Member(obj, k) ==
    obj.o[CHOOSE i \in DOMAIN obj.o :
              obj.o[i].k = k /\ \A j \in DOMAIN obj.o : obj.o[j].k = k => i <= j].v
\* the member named k is there and is the string s
MemberIs(obj, k, s) == HasMember(obj, k) /\ Member(obj, k) = JStr(s)

\* a text was decoded as it came in (not one the serializer wrote)
DecodedInput == result # Pending /\ doc = NoDoc
\* the text at hand is one JSON value and nothing else
IsJson == text.kind = "json"
\* the text at hand is a JSON object with a `cells` array
HasCells ==
    /\ text.kind \in {"json", "trailing"}
    /\ IsObj(text.root)
    /\ HasMember(text.root, "cells")
    /\ Member(text.root, "cells").t = "arr"
\* the cells of a notebook object
CellsOf(root) == Member(root, "cells").a

\* the object with the value of every member named k replaced by F of it
MapMember(obj, k, F(_)) ==
    JObj([i \in DOMAIN obj.o |->
            IF obj.o[i].k = k THEN KV(k, F(obj.o[i].v)) ELSE obj.o[i]])
\* the notebook object with every cell replaced by F of it
MapCells(root, F(_)) ==
    MapMember(root, "cells",
              LAMBDA c : IF c.t = "arr" THEN JArr([i \in DOMAIN c.a |-> F(c.a[i])])
                         ELSE c)

----------------------------------------------------------------------------
(* C1: source as one string or as an array of strings                      *)

IsFragments(v) == v.t = "arr" /\ \A i \in DOMAIN v.a : v.a[i].t = "str"

RECURSIVE ConcatFragments(_, _)
\* the fragments from the i-th on, joined with nothing between them
ConcatFragments(a, i) ==
    IF i > Len(a) THEN "" ELSE a[i].s \o ConcatFragments(a, i + 1)

\* a cell with an array-form source rewritten as the single string
SingleStringCell(c) ==
    IF IsObj(c)
    THEN MapMember(c, "source",
                   LAMBDA v : IF IsFragments(v) THEN JStr(ConcatFragments(v.a, 1))
                              ELSE v)
    ELSE c

\* some cell of the text at hand has its source in array form
HasArraySource ==
    /\ HasCells
    /\ \E i \in DOMAIN CellsOf(text.root) :
          LET c == CellsOf(text.root)[i] IN
          IsObj(c) /\ HasMember(c, "source") /\ IsFragments(Member(c, "source"))

\* C1: a notebook whose cells give `source` as an array of strings decodes,
\* and to the same Document as the notebook with each array replaced by the
\* concatenation of its strings (whenever that notebook decodes).
C1_ArraySourceSameAsString ==
    (DecodedInput /\ IsJson /\ HasArraySource) =>
        LET single == deserialize_notebook(
                          JsonText(MapCells(text.root, SingleStringCell)))
        IN single.ok => result = single

----------------------------------------------------------------------------
(* C2: decode after encode                                                 *)

\* C2: for every document D, decoding the encoding of D yields D, equal
\* field by field, cells and outputs in the same order.
C2_DecodeEncodeIsIdentity ==
    (doc # NoDoc /\ result # Pending) => result = Ok(doc)

----------------------------------------------------------------------------
(* C3: the selection of a Notebook                                         *)

\* C3: in every state, every Notebook's selection is none exactly when it
\* has no cells, and is otherwise an index below the number of cells.
\* selected_cell is a usize, so the selection is never none: the Notebook
\* must have a cell and selected_cell must be the index of one.
C3_SelectionValid ==
    \A v \in DOMAIN views :
        /\ Len(views[v].cells) # 0
        /\ views[v].selected_cell \in 0..(Len(views[v].cells) - 1)

\* a Notebook has been rendered and a cell-moving action dispatched to it
C3_Witness ==
    \E v \in DOMAIN views :
        /\ frames[v] # NoFrame
        /\ dispatched = [view |-> v, action |-> "MoveCellDown"]
        /\ views[v].selected_cell = 0
        /\ Len(views[v].cells) = 2

----------------------------------------------------------------------------
(* C4: a notebook that omits metadata and the format version               *)

\* the notebook object with {} for a metadata it omits, and the current
\* format version for version members it omits
WithDefaults(root) ==
    LET a == IF HasMember(root, "metadata") THEN root
             ELSE Plus(root, "metadata", JObj(<<>>))
        b == IF HasMember(a, "nbformat") THEN a
             ELSE Plus(a, "nbformat", JInt(DEFAULT_NOTEBOOK_FORMAT))
    IN IF HasMember(b, "nbformat_minor") THEN b
       ELSE Plus(b, "nbformat_minor", JInt(DEFAULT_NOTEBOOK_FORMAT_MINOR))

\* C4: a notebook that omits the top-level `metadata` (and possibly the
\* format version members) decodes, to the Document that the same notebook
\* with empty metadata and version (4, 0) written out decodes to.
C4_OmittedMetadataDefaults ==
    (DecodedInput /\ IsJson /\ HasCells /\ ~HasMember(text.root, "metadata")) =>
        LET full == deserialize_notebook(JsonText(WithDefaults(text.root)))
        IN full.ok => /\ result.ok
                      /\ result.v.metadata = DefaultMetadata
                      /\ result = full

----------------------------------------------------------------------------
(* C5: the major format version                                            *)

\* the text at hand names a major version that is an i32 other than 4
HasOtherMajor ==
    /\ text.kind \in {"json", "trailing"}
    /\ IsObj(text.root)
    /\ HasMember(text.root, "nbformat")
    /\ DeserializeI32(Member(text.root, "nbformat")).ok
    /\ DeserializeI32(Member(text.root, "nbformat")).v # DEFAULT_NOTEBOOK_FORMAT

\* C5: a notebook whose nbformat is a major version other than the one the
\* codec implements does not decode: the result is an error, no Document.
C5_OtherMajorFails ==
    (DecodedInput /\ HasOtherMajor) => ~result.ok

----------------------------------------------------------------------------
(* C6: a cell with an unknown cell_type                                    *)

\* the cell is an object whose cell_type is a string naming no variant
UnknownCellType(c) ==
    /\ IsObj(c)
    /\ HasMember(c, "cell_type")
    /\ Member(c, "cell_type").t = "str"
    /\ Member(c, "cell_type").s \notin Range(CellVariants)

\* the cell with an unknown cell_type replaced by the variant t
Retyped(c, t) ==
    IF UnknownCellType(c) THEN MapMember(c, "cell_type", LAMBDA v : JStr(t)) ELSE c

\* C6: a notebook with a cell of unknown cell_type, at whichever index, does
\* not decode: the result is an error and no Document; when the notebook
\* decodes once the cell is given a known type, the error is the data error
\* `unknown variant`.
C6_UnknownCellTypeFails ==
    (DecodedInput /\ HasCells
        /\ \E i \in DOMAIN CellsOf(text.root) : UnknownCellType(CellsOf(text.root)[i]))
    => /\ ~result.ok
       /\ (\E t \in Range(CellVariants) :
              deserialize_notebook(JsonText(MapCells(text.root,
                  LAMBDA c : Retyped(c, t)))).ok)
          => result = Err("Data", "unknown variant")

\* the unknown cell is the second cell, after a cell that decodes
C6_Witness ==
    /\ DecodedInput /\ IsJson /\ HasCells
    /\ Len(CellsOf(text.root)) = 2
    /\ CellsOf(text.root)[1] \in FillerCells
    /\ UnknownCellType(CellsOf(text.root)[2])
    /\ result = Err("Data", "unknown variant")

----------------------------------------------------------------------------
(* C7: an output with an unknown output_type                               *)

\* the output is an object whose output_type is a string naming no variant
UnknownOutputType(o) ==
    /\ IsObj(o)
    /\ HasMember(o, "output_type")
    /\ Member(o, "output_type").t = "str"
    /\ Member(o, "output_type").s \notin Range(OutputVariants)

\* the cell is a code cell with an `outputs` array
HasOutputs(c) ==
    /\ IsObj(c)
    /\ MemberIs(c, "cell_type", "code")
    /\ HasMember(c, "outputs")
    /\ Member(c, "outputs").t = "arr"

\* the outputs of unknown type of a code cell
UnknownOutputsOf(c) ==
    IF HasOutputs(c)
    THEN {o \in Range(Member(c, "outputs").a) : UnknownOutputType(o)}
    ELSE {}

\* the text at hand has a code cell with an output of unknown type
HasUnknownOutput ==
    /\ HasCells
    /\ \E i \in DOMAIN CellsOf(text.root) : UnknownOutputsOf(CellsOf(text.root)[i]) # {}

\* the cell without its outputs of unknown type
WithoutUnknownOutputs(c) ==
    IF HasOutputs(c)
    THEN MapMember(c, "outputs",
             LAMBDA v : IF v.t = "arr"
                        THEN JArr(SelectSeq(v.a, LAMBDA o : ~UnknownOutputType(o)))
                        ELSE v)
    ELSE c

\* the notebook decodes once its outputs of unknown type are taken out
RestDecodes ==
    deserialize_notebook(JsonText(MapCells(text.root, WithoutUnknownOutputs))).ok

\* C7 as stated: an unknown output_type fails only that output; the other
\* outputs of the cell and the other cells still decode, so a notebook that
\* decodes without the output yields a Document with it.
C7_OnlyThatOutputFails ==
    (DecodedInput /\ IsJson /\ HasUnknownOutput /\ RestDecodes) =>
        /\ result.ok
        /\ Len(result.v.cells) = Len(CellsOf(text.root))

\* C7 amended: an output of unknown output_type fails the whole decode: the
\* result is an error and no Document, whatever else the notebook holds;
\* when the notebook decodes without the output (and the output holds no
\* out-of-range number), the error is the data error `unknown variant`.
C7_UnknownOutputFailsDecode ==
    (DecodedInput /\ HasUnknownOutput) =>
        /\ ~result.ok
        /\ (RestDecodes
            /\ \A i \in DOMAIN CellsOf(text.root) :
                  \A o \in UnknownOutputsOf(CellsOf(text.root)[i]) : ~HasOutOfRange(o))
           => result = Err("Data", "unknown variant")

\* the unknown output stands between two outputs that decode, in a cell
\* next to a cell that decodes
C7_Witness ==
    /\ DecodedInput /\ IsJson /\ HasCells /\ RestDecodes
    /\ Len(CellsOf(text.root)) = 2
    /\ CellsOf(text.root)[1] \in FillerCells
    /\ LET c == CellsOf(text.root)[2] IN
          /\ HasOutputs(c)
          /\ Len(Member(c, "outputs").a) = 3
          /\ Member(c, "outputs").a[1] = StreamOutput
          /\ UnknownOutputType(Member(c, "outputs").a[2])
    /\ result = Err("Data", "unknown variant")

----------------------------------------------------------------------------
(* C8: required and optional fields of a cell                              *)

\* the member k is left out or is null
MissingOrNull(obj, k) == ~HasMember(obj, k) \/ Member(obj, k) = JNull

\* the object with v for a member k that is left out or null
Filled(obj, k, v) ==
    IF ~HasMember(obj, k) THEN Plus(obj, k, v)
    ELSE MapMember(obj, k, LAMBDA x : IF x = JNull THEN v ELSE x)

RECURSIVE FilledFrom(_, _, _, _)
\* the object with the members named in fs[i..], where left out or null,
\* taken from the object full
FilledFrom(obj, full, fs, i) ==
    IF i > Len(fs) THEN obj
    ELSE FilledFrom(Filled(obj, fs[i], Member(full, fs[i])), full, fs, i + 1)

\* the cell with a value for every optional field it leaves out or has null
FilledCell(c) ==
    IF IsObj(c)
    THEN Filled(Filled(MapMember(c, "metadata",
                           LAMBDA m : IF IsObj(m)
                                      THEN FilledFrom(m, FullCellMetadata,
                                               StructFields("DeserializedCellMetadata"), 1)
                                      ELSE m),
                       "execution_count", JInt(1)),
                "attachments", JObj(<<>>))
    ELSE c

\* the decoded cell d has None for every optional field the cell c of the
\* text leaves out or has null, and no outputs where c has none.  A cell or
\* a cell metadata written as an array names no field and leaves none out.
OptionalAbsent(c, d) ==
    IsObj(c) =>
        /\ (d.cell_type = "code" /\ MissingOrNull(c, "execution_count"))
              => d.execution_count = None
        /\ (d.cell_type = "code" /\ Member(c, "outputs") = JArr(<<>>))
              => d.outputs = <<>>
        /\ (d.cell_type = "markdown" /\ MissingOrNull(c, "attachments"))
              => d.attachments = None
        /\ IsObj(Member(c, "metadata")) =>
               \A f \in CellMetadataFields :
                   MissingOrNull(Member(c, "metadata"), f) => d.metadata[f] = None

\* C8: a cell without its cell_type or without its source fails the decode;
\* a notebook that decodes when every optional field (execution_count,
\* attachments, the cell-metadata fields) has a value still decodes with
\* any of them left out or null, and each such field is None in the Document.
C8_RequiredAndOptionalFields ==
    (DecodedInput /\ HasCells) =>
        /\ (\E i \in DOMAIN CellsOf(text.root) :
               LET c == CellsOf(text.root)[i] IN
               IsObj(c) /\ (~HasMember(c, "cell_type") \/ ~HasMember(c, "source")))
           => ~result.ok
        /\ (IsJson /\ deserialize_notebook(JsonText(MapCells(text.root, FilledCell))).ok)
           => /\ result.ok
              /\ Len(result.v.cells) = Len(CellsOf(text.root))
              /\ \A i \in DOMAIN CellsOf(text.root) :
                    OptionalAbsent(CellsOf(text.root)[i], result.v.cells[i])

\* a code cell with "execution_count": null and "outputs": [] has decoded,
\* next to a markdown cell without attachments
C8_Witness ==
    /\ DecodedInput /\ IsJson /\ HasCells
    /\ Len(CellsOf(text.root)) = 2
    /\ CellsOf(text.root)[1] = MarkdownCell(JStr("# Title"))
    /\ CellsOf(text.root)[2] = CodeCell(JNull, <<>>, JStr("x = 1"))
    /\ result.ok
    /\ result.v.cells[1].attachments = None
    /\ result.v.cells[1].metadata = NoCellMetadata
    /\ result.v.cells[2].execution_count = None
    /\ result.v.cells[2].outputs = <<>>

----------------------------------------------------------------------------
(* C9: the numeric fields                                                  *)

\* the magnitude of the literal fits an i32 of its sign
FitsI32(l) ==
    IF l.neg THEN l.hi < 32768 \/ (l.hi = 32768 /\ l.lo = 0) ELSE l.hi <= 32767

\* the literal denotes a whole number inside the i32 range, in whatever
\* form: 4, 4.0, -0 and 0e999 all do
WholeInRange(l) ==
    \/ l.form \in {"int", "dot0"} /\ FitsI32(l)
    \/ l.form = "e999" /\ l.hi = 0 /\ l.lo = 0

\* the literal is an integer literal (digits, a minus sign before them at
\* most) inside the i32 range, other than -0
IntLiteralInRange(l) ==
    l.form = "int" /\ FitsI32(l) /\ ~(l.neg /\ l.hi = 0 /\ l.lo = 0)

\* the number literal (if it is one) of the member k, as a set
NumberAt(obj, k) ==
    IF IsObj(obj) /\ HasMember(obj, k) /\ Member(obj, k).t = "num"
    THEN {Member(obj, k)} ELSE {}

\* the execute_result outputs of a code cell
ExecuteResultsOf(c) ==
    IF HasOutputs(c)
    THEN {o \in Range(Member(c, "outputs").a) :
            IsObj(o) /\ MemberIs(o, "output_type", "execute_result")}
    ELSE {}

\* the number literals in the numeric fields of the notebook object
NumericLiterals(root) ==
    NumberAt(root, "nbformat") \cup NumberAt(root, "nbformat_minor")
    \cup (IF HasMember(root, "cells") /\ Member(root, "cells").t = "arr"
          THEN UNION {(IF IsObj(c) /\ MemberIs(c, "cell_type", "code")
                       THEN NumberAt(c, "execution_count") ELSE {})
                      \cup UNION {NumberAt(o, "execution_count") : o \in ExecuteResultsOf(c)} :
                      c \in Range(CellsOf(root))}
          ELSE {})

OneIfNumber(v) == IF v.t = "num" THEN JInt(1) ELSE v

\* the notebook object with 1 for every number in a numeric field
WithNumbersOne(root) ==
    MapCells(MapMember(MapMember(root, "nbformat", OneIfNumber),
                       "nbformat_minor", OneIfNumber),
             LAMBDA c :
                IF IsObj(c) /\ MemberIs(c, "cell_type", "code")
                THEN MapMember(MapMember(c, "execution_count", OneIfNumber), "outputs",
                         LAMBDA v :
                            IF v.t = "arr"
                            THEN JArr([j \in DOMAIN v.a |->
                                         IF IsObj(v.a[j])
                                            /\ MemberIs(v.a[j], "output_type", "execute_result")
                                         THEN MapMember(v.a[j], "execution_count", OneIfNumber)
                                         ELSE v.a[j]])
                            ELSE v)
                ELSE c)

\* the notebook decodes with 1 in every numeric field: the numbers are all
\* that can be wrong with it
NumbersAside == deserialize_notebook(JsonText(WithNumbersOne(text.root))).ok

\* C9 as stated: the decode fails when a numeric field holds a fractional
\* value or a value outside the i32 range, and succeeds for every whole
\* number inside the range.
C9_WholeNumbersDecode ==
    (DecodedInput /\ IsJson /\ IsObj(text.root)) =>
        /\ (\E l \in NumericLiterals(text.root) : ~WholeInRange(l)) => ~result.ok
        /\ (NumbersAside /\ \A l \in NumericLiterals(text.root) : WholeInRange(l))
           => result.ok

\* C9 amended: the decode fails when a numeric field holds a number that is
\* not an integer literal inside the i32 range (a literal with a fraction or
\* exponent part, whole-valued or not, the literal -0, an integer out of
\* range), and succeeds for every integer literal inside the range other
\* than -0, with the literal's value in the Document.
C9_IntegerLiteralsDecode ==
    (DecodedInput /\ IsJson /\ IsObj(text.root)) =>
        /\ (\E l \in NumericLiterals(text.root) : ~IntLiteralInRange(l)) => ~result.ok
        /\ (NumbersAside /\ \A l \in NumericLiterals(text.root) : IntLiteralInRange(l))
           => /\ result.ok
              /\ NumberAt(text.root, "nbformat") = {I32Lit(result.v.nbformat)}
              /\ NumberAt(text.root, "nbformat_minor") = {I32Lit(result.v.nbformat_minor)}

\* the largest i32 as nbformat has decoded
C9_Witness ==
    /\ DecodedInput /\ IsJson /\ IsObj(text.root)
    /\ NumberAt(text.root, "nbformat") = {JNumLit(FALSE, 32767, 65535, "int")}
    /\ result.ok
    /\ result.v.nbformat = 2147483647

----------------------------------------------------------------------------
(* C10: the kinds of decode error                                          *)

\* C10: a decode failure of a text that is one JSON value is reported as a
\* schema (data) error, never as malformed input; a failure of a text that
\* is no JSON is reported as malformed input (a syntax or end-of-input
\* error), never as a schema error.
C10_ErrorKindsDistinct ==
    (DecodedInput /\ ~result.ok) =>
        /\ IsJson => result.cat = "Data"
        /\ text.kind \in {"notjson", "badident", "cutident", "empty"} =>
               result.cat \in {"Syntax", "Eof"}

----------------------------------------------------------------------------
(* Statements about the Notebook view                                      *)

\* the actions that stand for the insert operation, and the kind of cell
\* each is to insert
InsertActions == {"AddMarkdownBlock", "AddCodeBlock"}
InsertedType(a) == IF a = "AddMarkdownBlock" THEN "Markdown" ELSE "Code"
\* the actions that stand for move_cell
MoveActions == {"MoveCellUp", "MoveCellDown"}

\* C11: a newly constructed document has an empty cell sequence, default
\* metadata (no kernelspec, no language_info) and the format version (4, 0),
\* and this holds for the cells the Notebook view shows after Notebook::new,
\* not only for its NotebookData.
C11_NewDocumentEmpty ==
    \A v \in DOMAIN views :
        /\ views[v].data.cells = <<>>
        /\ views[v].data.metadata.kernelspec = None
        /\ views[v].data.metadata.language_info = None
        /\ views[v].data.nbformat = 4
        /\ views[v].data.nbformat_minor = 0
        /\ views[v].cells = <<>>

\* new has the cell of kind ty at position p (counted from zero), the cells
\* of old before p where they were and the cells of old from p on one later
InsertedAt(old, new, p, ty) ==
    /\ Len(new) = Len(old) + 1
    /\ new[p + 1].cell_type = ty
    /\ \A k \in 1..p : new[k] = old[k]
    /\ \A k \in (p + 1)..Len(old) : new[k + 1] = old[k]

\* C12: inserting a cell at a position p, 0 <= p <= n, into a document of n
\* cells (AddMarkdownBlock, AddCodeBlock) yields n + 1 cells with the new
\* cell at p, the cells before p unchanged and the cells from p on shifted
\* by one.
C12_InsertShifts ==
    [][\A v \in DOMAIN views : \A a \in InsertActions :
          Dispatch(v, a) =>
              \E p \in 0..Len(views[v].cells) :
                  InsertedAt(views[v].cells, views'[v].cells, p,
                             InsertedType(a))]_vars

\* the sequence s without its element at index i
SeqWithout(s, i) == [k \in 1..(Len(s) - 1) |-> IF k < i THEN s[k] ELSE s[k + 1]]
\* how often the value c occurs in s
Occurrences(s, c) == Cardinality({k \in DOMAIN s : s[k] = c})
\* new holds the same cell values as old, each as often
SameCells(old, new) ==
    /\ Len(new) = Len(old)
    /\ \A k \in DOMAIN old : Occurrences(new, old[k]) = Occurrences(old, old[k])
\* one cell of old is somewhere in new and the others are in the order they
\* had
OthersKeepOrder(old, new) ==
    \E i \in DOMAIN old : \E j \in DOMAIN new :
        /\ new[j] = old[i]
        /\ SeqWithout(new, j) = SeqWithout(old, i)
\* the move that action a asks for stays inside the cell sequence
MoveInBounds(nb, a) ==
    IF a = "MoveCellUp" THEN nb.selected_cell >= 1 /\ nb.selected_cell < Len(nb.cells)
    ELSE nb.selected_cell + 1 < Len(nb.cells)

\* C13: a move with both indices in bounds (MoveCellUp, MoveCellDown) leaves
\* a permutation of the same cell values: the count is unchanged, no cell is
\* duplicated or lost and the cells other than the moved one keep their
\* relative order.
C13_MoveIsPermutation ==
    [][\A v \in DOMAIN views : \A a \in MoveActions :
          (MoveInBounds(views[v], a) /\ Dispatch(v, a)) =>
              /\ SameCells(views[v].cells, views'[v].cells)
              /\ OthersKeepOrder(views[v].cells, views'[v].cells)]_vars

\* a move inside a sequence of two cells or more has been dispatched
C13_Witness ==
    /\ dispatched.action \in MoveActions
    /\ dispatched.view \in DOMAIN views
    /\ Len(views[dispatched.view].cells) >= 2
    /\ MoveInBounds(views[dispatched.view], dispatched.action)

\* the positions of a frame whose cell is presented as selected
SelectedIn(frame) == {i \in DOMAIN frame : frame[i].selected}

\* C16: at every render of a Notebook whose cell sequence is not empty,
\* exactly one cell is presented as selected, the one at index selected_cell
\* (counted from zero), and every other cell is presented as not selected.
C16_ExactlyOneSelected ==
    [][\A v \in DOMAIN views :
          (Render(v) /\ Len(views[v].cells) > 0) =>
              /\ Len(frames'[v]) = Len(views[v].cells)
              /\ Cardinality(SelectedIn(frames'[v])) = 1
              /\ SelectedIn(frames'[v]) = {views[v].selected_cell + 1}]_vars

\* a Notebook of two cells or more has been rendered, with one cell shown as
\* selected and another shown as not selected
C16_Witness ==
    \E v \in DOMAIN frames :
        /\ frames[v] # NoFrame
        /\ Len(frames[v]) >= 2
        /\ \E i, j \in DOMAIN frames[v] :
               frames[v][i].selected /\ ~frames[v][j].selected

\* C17: RunAll is only a named hook: dispatching it leaves the cell
\* sequence with every cell's content, the selection and the notebook data
\* as they were.
C17_RunAllChangesNothing ==
    [][\A v \in DOMAIN views :
          Dispatch(v, "RunAll") =>
              /\ views'[v].cells = views[v].cells
              /\ views'[v].selected_cell = views[v].selected_cell
              /\ views'[v].data = views[v].data
              /\ Len(views') = Len(views)]_vars

\* RunAll has been dispatched to a Notebook that holds cells
C17_Witness ==
    /\ dispatched.action = "RunAll"
    /\ dispatched.view \in DOMAIN views
    /\ Len(views[dispatched.view].cells) > 0

\* C18: once a Notebook is constructed, no action handler and no render
\* changes it: cells and selected_cell stay what Notebook::new made them,
\* and every stored cell keeps selected = FALSE.
C18_ViewStateFixed ==
    \A v \in DOMAIN views :
        /\ views[v].cells = NotebookNew.cells
        /\ views[v].selected_cell = NotebookNew.selected_cell
        /\ \A i \in DOMAIN views[v].cells : ~views[v].cells[i].selected

\* a Notebook has been rendered, OpenNotebook has run on a view (a line was
\* printed) and an action other than OpenNotebook was dispatched last
C18_Witness ==
    /\ stdout > 0
    /\ dispatched.action \in NotebookActions \ {"OpenNotebook"}
    /\ dispatched.view \in DOMAIN frames
    /\ frames[dispatched.view] # NoFrame

\* the pane positions that hold the view of open task i
ItemsOf(i) == {k \in DOMAIN pane : pane[k] = opens[i].view}

\* C19: in Notebook::open the item is added to the pane only after load has
\* succeeded, and at most once per open; if load fails no item is added and
\* the task resolves to the error; the task resolves to Ok(notebook) only
\* with the item added, and that item is the view load created.
C19_ItemAddedAfterLoad ==
    /\ \A k \in DOMAIN pane :
           /\ pane[k] \in DOMAIN views
           /\ \E i \in DOMAIN opens : opens[i].view = pane[k] /\ opens[i].pc = "ok"
    /\ \A i \in DOMAIN opens :
           /\ Cardinality(ItemsOf(i)) <= 1
           /\ opens[i].view = 0 =>
                  opens[i].pc \in {"deferred", "loading", "failed"} /\ ItemsOf(i) = {}
           /\ opens[i].pc = "failed" => ItemsOf(i) = {}
           /\ opens[i].pc = "ok" =>
                  opens[i].view \in DOMAIN views /\ Cardinality(ItemsOf(i)) = 1
           /\ \A j \in DOMAIN opens :
                  (i # j /\ opens[i].view # 0) => opens[i].view # opens[j].view

\* one open has resolved to Ok with its item in the pane and another has
\* failed in load
C19_Witness ==
    \E i, j \in DOMAIN opens :
        /\ opens[i].pc = "ok" /\ ItemsOf(i) # {}
        /\ opens[j].pc = "failed" /\ opens[j].view = 0

----------------------------------------------------------------------------
(* The sample notebook through the decoder                                 *)

\* C20: deserialize_notebook on the text of deserializable_sample_notebook
\* returns Ok, with one decoded cell for each entry of the sample's cells
\* array, in the same order and of the same cell type.
C20_SampleDecodes ==
    (DecodedInput /\ text = deserializable_sample_notebook) =>
        /\ result.ok
        /\ Len(result.v.cells) = Len(CellsOf(text.root))
        /\ \A i \in DOMAIN result.v.cells :
               JStr(result.v.cells[i].cell_type) =
                   Member(CellsOf(text.root)[i], "cell_type")

====
